---- MODULE Spec2Model ----
(***************************************************************************)
(* The economy ledger of src/main.py: the user_economy and transactions    *)
(* tables, the balance engine (update_user_balance), the claim scheduler   *)
(* (claim_daily, work, claim_admin_monthly_bonus) and the clock they read. *)
(*                                                                         *)
(* Gold amounts.  The three large amounts of the source (50, 100 and 30    *)
(* thousand million) do not fit TLC's 32-bit integers; the model keeps     *)
(* them in the source's proportion 5 : 10 : 3 on a unit of 24 gold, so     *)
(* that the starting balance 100 and the stipend and wage ranges keep      *)
(* their source values and stay below the normal cap.                      *)
(* Time is in whole seconds; the cooldown durations keep their values.     *)
(***************************************************************************)
EXTENDS Integers, Sequences, FiniteSets, TLC

VARIABLES
    user_economy,          \* table user_economy: user -> row (one guild)
    transactions,          \* table transactions, in insertion order
    admin_monthly_claims,  \* table admin_monthly_claims, in insertion order
    perm,                  \* Discord side: member.guild_permissions.administrator
    now,                   \* utcnow(), seconds
    ticks,                 \* number of clock advances so far
    procs,                 \* concurrent tasks inside update_user_balance
    last,                  \* the most recent handler call and what it returned
    prev,                  \* the handler call before that
    gambling_records,      \* table gambling_records, in insertion order
    active_giveaways,      \* table active_giveaways; a row's id is its index
    giveaway_entries,      \* table giveaway_entries, in insertion order
    timers,                \* end_tournament_later tasks asleep on the loop
    shop_items,            \* table shop_items; a row's id is its index
    user_inventory,        \* table user_inventory, in insertion order
    member_roles           \* Discord side: member.roles of each member

vars == <<user_economy, transactions, admin_monthly_claims, perm, now, ticks,
          procs, last, prev, gambling_records, active_giveaways,
          giveaway_entries, timers, shop_items, user_inventory,
          member_roles>>

\* the tables of the wagering engine and of the tournaments, and the
\* tournaments' timers
other_tables ==
    <<gambling_records, active_giveaways, giveaway_entries, timers>>

\* the tables of the shop, and the roles it confers
shop_tables == <<shop_items, user_inventory, member_roles>>

----------------------------------------------------------------------------
(* Economy configuration *)

MAX_GOLD_NORMAL == 120
MAX_GOLD_ADMIN == 240
ADMIN_MONTHLY_BONUS == 72
LABOUR_COOLDOWN_HOURS == 1
WEEKLY_GAMBLING_TRIES == 30
STARTING_GOLD == 100
DAILY_COOLDOWN_SECONDS == 86400
ADMIN_MONTHLY_SECONDS == 2592000
DAILY_MIN == 3
DAILY_MAX == 7
WORK_MIN == 8
WORK_MAX == 15

----------------------------------------------------------------------------
(* Bounds of the model *)

MaxTx == 2
MaxTicks == 2

\* gambling_records rows in the run that exhausts the weekly allowance
MaxPlays == 31

Users == {"u1", "u2"}

\* the members who issue the claim commands, and whose calls meet storage
\* failures
Claimants == {"u1"}
Procs == {"p1", "p2"}

\* signed deltas handed to update_user_balance by a direct caller
AdjustDeltas == {0 - 150, 0 - 5, 0 - 3, 0, 5, 150}

\* clock advances: one second, and one second short of the labour and the
\* monthly cooldown (daily_claimed is never written, so no behaviour
\* depends on the distance to the daily cooldown)
TickSteps == {1, 3599, 2591999}

\* the draws of random.randint(3, 7) and random.randint(8, 15) that are
\* explored: the two ends of each range
DailyAmounts == {DAILY_MIN, DAILY_MAX}

WorkAmounts == {WORK_MIN, WORK_MAX}

\* the deltas of the calls that run with storage failures
FailDeltas == {0 - 150, 0 - 3, 5, 150}

\* wagers handed to gamble: zero, affordable, above any purse
WagerAmounts == {0, 30, 200}

\* wagers of the run that exhausts the weekly allowance
QuotaWagers == {0, 1, 200}

\* game_type arguments: the three games and one the realm does not know
GameTypes == {"dice", "coin", "slots", "chess"}

QuotaGameTypes == {"dice", "chess"}

\* random.random() in hundredths, one value per band of the three games
Rolls == {2, 10, 30, 47, 49, 90}

\* the run that exhausts the weekly allowance explores the losing draw
QuotaRolls == {90}

\* clock advances around the Monday 00:00 UTC boundary
QuotaTickSteps == {1, 604799}

\* the numbers of wagers made so far at which that run lets time pass:
\* before the first wager, and with one try or no try left
QuotaTickPoints == {0, WEEKLY_GAMBLING_TRIES - 1, WEEKLY_GAMBLING_TRIES}

\* tournaments created in one run
MaxGiveaways == 1

\* arguments of tournament_cmd (duration_minutes, winner_count,
\* prize_amount): each limit of each check from both sides, a prize pool
\* above the starting purse, and three fundable tournaments
TournamentArgs ==
    {<<4, 1, 50>>, <<1441, 1, 50>>, <<5, 0, 50>>, <<1440, 11, 50>>,
     <<5, 1, 0>>, <<1440, 10, 0>>, <<5, 10, 50>>,
     <<5, 1, 50>>, <<5, 2, 50>>, <<1440, 2, 1>>}

\* places where a storage call inside update_user_balance can raise
FailPoints == {"none", "read", "cap", "update", "insert"}

----------------------------------------------------------------------------
(* Helpers *)

Max(a, b) == IF a >= b THEN a ELSE b

Min(a, b) == IF a <= b THEN a ELSE b

Abs(a) == IF a < 0 THEN 0 - a ELSE a

\* a nullable TIMESTAMP column: <<>> is NULL, <<t>> holds t
NULL == << >>

HasRow(ue, u) == u \in DOMAIN ue

\* the row INSERTed by get_user_balance; the other columns take the
\* defaults of CREATE TABLE user_economy
NewRow ==
    [gold |-> STARTING_GOLD, daily_claimed |-> NULL, work_cooldown |-> NULL,
     gamble_wins |-> 0, gamble_losses |-> 0,
     total_gold_earned |-> STARTING_GOLD, total_gold_spent |-> 0,
     is_admin |-> FALSE, admin_monthly_claimed |-> NULL]

InsertRow(ue, u, row) ==
    [x \in DOMAIN ue \cup {u} |-> IF x = u THEN row ELSE ue[x]]

----------------------------------------------------------------------------
(* is_user_admin, get_user_balance, get_gold_cap *)

\* mutant: the stored flag follows the live permission
is_user_admin_synced(ue, pm, u, failed) ==
    IF failed THEN [ue |-> ue, val |-> FALSE]
    ELSE [ue |-> IF HasRow(ue, u)
                 THEN [ue EXCEPT ![u].is_admin = pm[u]]
                 ELSE ue,
          val |-> pm[u]]

\* returns the value and the table after the UPDATE ... SET is_admin=true;
\* on an exception the function returns False
is_user_admin(ue, pm, u, failed) ==
    IF failed THEN [ue |-> ue, val |-> FALSE]
    ELSE IF HasRow(ue, u) /\ ue[u].is_admin THEN [ue |-> ue, val |-> TRUE]
    ELSE IF pm[u]
         THEN [ue |-> IF HasRow(ue, u)
                      THEN [ue EXCEPT ![u].is_admin = TRUE]
                      ELSE ue,
               val |-> TRUE]
         ELSE [ue |-> ue, val |-> FALSE]

\* returns gold, wins, losses, total_earned, total_spent, is_admin and the
\* table after the lazy INSERT; on an exception it returns all zeros
get_user_balance(ue, u, failed) ==
    IF failed
    THEN [ue |-> ue, gold |-> 0, wins |-> 0, losses |-> 0,
          total_earned |-> 0, total_spent |-> 0, is_admin |-> FALSE]
    ELSE IF HasRow(ue, u)
         THEN [ue |-> ue, gold |-> ue[u].gold, wins |-> ue[u].gamble_wins,
               losses |-> ue[u].gamble_losses,
               total_earned |-> ue[u].total_gold_earned,
               total_spent |-> ue[u].total_gold_spent,
               is_admin |-> ue[u].is_admin]
         ELSE [ue |-> InsertRow(ue, u, NewRow), gold |-> STARTING_GOLD,
               wins |-> 0, losses |-> 0, total_earned |-> STARTING_GOLD,
               total_spent |-> 0, is_admin |-> FALSE]

get_gold_cap(ue, pm, u, failed) ==
    LET a == is_user_admin(ue, pm, u, failed)
    IN  [ue |-> a.ue,
         val |-> IF a.val THEN MAX_GOLD_ADMIN ELSE MAX_GOLD_NORMAL]

----------------------------------------------------------------------------
(* update_user_balance *)

\* mutant: the cap is not enforced
NewGoldNoCap(current_gold, gold_change, gold_cap) ==
    Max(0, current_gold + gold_change)

\* new_gold = min(max(0, current_gold + gold_change), gold_cap)
NewGold(current_gold, gold_change, gold_cap) ==
    Min(Max(0, current_gold + gold_change), gold_cap)

\* mutant: every request, credit or debit, counts as earned
NewTotalEarnedUnsigned(total_earned, gold_change) ==
    total_earned + Abs(gold_change)

NewTotalEarned(total_earned, gold_change) ==
    IF gold_change > 0 THEN total_earned + gold_change ELSE total_earned

\* mutant: the debit is added with its sign
NewTotalSpentSigned(total_spent, gold_change) ==
    IF gold_change > 0 THEN total_spent ELSE total_spent + gold_change

NewTotalSpent(total_spent, gold_change) ==
    IF gold_change > 0 THEN total_spent ELSE total_spent + Abs(gold_change)

\* mutant: any difference between applied and requested change counts
WasCappedAnyClamp(current_gold, new_gold, gold_change) ==
    new_gold - current_gold # gold_change

\* actual_gold_change < gold_change
WasCapped(current_gold, new_gold, gold_change) ==
    new_gold - current_gold < gold_change

TxRecord(u, type, amount, description, t, balance_after) ==
    [user |-> u, type |-> type, amount |-> amount,
     description |-> description, timestamp |-> t,
     balance_after |-> balance_after]

\* mutant: the UPDATE has no WHERE clause
UpdateBalanceRowNoWhere(ue, u, new_gold, new_total_earned, new_total_spent) ==
    [v \in DOMAIN ue |->
        [ue[v] EXCEPT !.gold = new_gold,
                      !.total_gold_earned = new_total_earned,
                      !.total_gold_spent = new_total_spent]]

\* the UPDATE user_economy SET gold, total_gold_earned, total_gold_spent
UpdateBalanceRow(ue, u, new_gold, new_total_earned, new_total_spent) ==
    IF HasRow(ue, u)
    THEN [ue EXCEPT ![u].gold = new_gold,
                    ![u].total_gold_earned = new_total_earned,
                    ![u].total_gold_spent = new_total_spent]
    ELSE ue

\* mutant: no transaction around the two statements, so an INSERT that
\* raises leaves the UPDATE in place
BalanceNoRollback(ue, tx, u, gold_change, description, t, new_gold, new_total_earned, new_total_spent, fail) ==
    IF fail = "update"
    THEN [ue |-> ue, tx |-> tx, committed |-> FALSE]
    ELSE IF fail = "insert"
    THEN [ue |-> UpdateBalanceRow(ue, u, new_gold, new_total_earned,
                                  new_total_spent),
          tx |-> tx, committed |-> FALSE]
    ELSE [ue |-> UpdateBalanceRow(ue, u, new_gold, new_total_earned,
                                  new_total_spent),
          tx |-> Append(tx, TxRecord(u, "balance_change", gold_change,
                                     description, t, new_gold)),
          committed |-> TRUE]

\* the conn.transaction() block: UPDATE then INSERT; an exception in either
\* statement rolls both back
BalanceTransaction(ue, tx, u, gold_change, description, t, new_gold, new_total_earned, new_total_spent, fail) ==
    IF fail \in {"update", "insert"}
    THEN [ue |-> ue, tx |-> tx, committed |-> FALSE]
    ELSE [ue |-> UpdateBalanceRow(ue, u, new_gold, new_total_earned,
                                  new_total_spent),
          tx |-> Append(tx, TxRecord(u, "balance_change", gold_change,
                                     description, t, new_gold)),
          committed |-> TRUE]

\* the whole call, run without interruption
update_user_balance(ue, tx, pm, t, u, gold_change, description, fail) ==
    LET r == get_user_balance(ue, u, fail = "read")
        c == get_gold_cap(r.ue, pm, u, fail = "cap")
        new_gold == NewGold(r.gold, gold_change, c.val)
        new_total_earned == NewTotalEarned(r.total_earned, gold_change)
        new_total_spent == NewTotalSpent(r.total_spent, gold_change)
        w == BalanceTransaction(c.ue, tx, u, gold_change, description, t,
                                new_gold, new_total_earned, new_total_spent,
                                fail)
    IN  [ue |-> w.ue, tx |-> w.tx, committed |-> w.committed,
         current_gold |-> r.gold, total_earned |-> r.total_earned,
         total_spent |-> r.total_spent, gold_cap |-> c.val,
         new_gold |-> IF w.committed THEN new_gold ELSE r.gold,
         capped |-> w.committed /\ WasCapped(r.gold, new_gold, gold_change)]

----------------------------------------------------------------------------
(* Claim scheduler *)

\* time_since.total_seconds() >= 86400; a failed read answers True
can_claim_daily(ue, t, u, failed) ==
    IF failed THEN TRUE
    ELSE IF ~HasRow(ue, u) \/ ue[u].daily_claimed = NULL THEN TRUE
    ELSE t - ue[u].daily_claimed[1] >= DAILY_COOLDOWN_SECONDS

\* time_since.total_seconds() >= 2592000; a failed read answers True
can_claim_admin_monthly(ue, t, u, failed) ==
    IF failed THEN TRUE
    ELSE IF ~HasRow(ue, u) \/ ue[u].admin_monthly_claimed = NULL THEN TRUE
    ELSE t - ue[u].admin_monthly_claimed[1] >= ADMIN_MONTHLY_SECONDS

\* mutant: a failed cooldown read refuses the labour
get_labour_cooldown_status_closed(ue, t, u, failed) ==
    LET cooldown_seconds == LABOUR_COOLDOWN_HOURS * 3600
    IN  IF failed THEN [can_work |-> FALSE, remaining |-> 0]
        ELSE IF ~HasRow(ue, u) \/ ue[u].work_cooldown = NULL
             THEN [can_work |-> TRUE, remaining |-> 0]
        ELSE IF t - ue[u].work_cooldown[1] >= cooldown_seconds
             THEN [can_work |-> TRUE, remaining |-> 0]
        ELSE [can_work |-> FALSE,
              remaining |-> cooldown_seconds - (t - ue[u].work_cooldown[1])]

\* returns (can_work, remaining seconds); a failed read answers (True, 0)
get_labour_cooldown_status(ue, t, u, failed) ==
    LET cooldown_seconds == LABOUR_COOLDOWN_HOURS * 3600
    IN  IF failed THEN [can_work |-> TRUE, remaining |-> 0]
        ELSE IF ~HasRow(ue, u) \/ ue[u].work_cooldown = NULL
             THEN [can_work |-> TRUE, remaining |-> 0]
        ELSE IF t - ue[u].work_cooldown[1] >= cooldown_seconds
             THEN [can_work |-> TRUE, remaining |-> 0]
        ELSE [can_work |-> FALSE,
              remaining |-> cooldown_seconds - (t - ue[u].work_cooldown[1])]

\* mutant: work never writes work_cooldown
StampWorkCooldownSkipped(ue, t, u) == ue

\* UPDATE user_economy SET work_cooldown=now
StampWorkCooldown(ue, t, u) ==
    IF HasRow(ue, u) THEN [ue EXCEPT ![u].work_cooldown = <<t>>] ELSE ue

\* claim_daily: the check, then the credit through update_user_balance
claim_daily(ue, tx, pm, t, u, daily_amount) ==
    IF ~can_claim_daily(ue, t, u, FALSE)
    THEN [ue |-> ue, tx |-> tx, success |-> FALSE, amount |-> 0]
    ELSE LET r == update_user_balance(ue, tx, pm, t, u, daily_amount,
                                      "Royal daily stipend", "none")
         IN  [ue |-> r.ue, tx |-> r.tx, success |-> TRUE,
              amount |-> daily_amount]

\* work: the check, the credit, then the cooldown stamp
work(ue, tx, pm, t, u, work_amount) ==
    LET st == get_labour_cooldown_status(ue, t, u, FALSE)
    IN  IF ~st.can_work
        THEN [ue |-> ue, tx |-> tx, success |-> FALSE, amount |-> 0,
              remaining |-> st.remaining]
        ELSE LET r == update_user_balance(ue, tx, pm, t, u, work_amount,
                                          "Honest labour", "none")
             IN  [ue |-> StampWorkCooldown(r.ue, t, u), tx |-> r.tx,
                  success |-> TRUE, amount |-> work_amount, remaining |-> 0]

\* the UPDATE user_economy SET gold=gold+$1, admin_monthly_claimed=$2
CreditAdminBonus(ue, t, u) ==
    IF HasRow(ue, u)
    THEN [ue EXCEPT ![u].gold = @ + ADMIN_MONTHLY_BONUS,
                    ![u].admin_monthly_claimed = <<t>>]
    ELSE ue

\* claim_admin_monthly_bonus: the three refusals, then one transaction that
\* reads the balance, credits it, and inserts the two records
claim_admin_monthly_bonus(ue, tx, amc, pm, t, u) ==
    LET a == is_user_admin(ue, pm, u, FALSE)
        current_gold == IF HasRow(a.ue, u) THEN a.ue[u].gold ELSE 0
    IN  IF ~a.val
        THEN [ue |-> a.ue, tx |-> tx, amc |-> amc, success |-> FALSE,
              amount |-> 0]
        ELSE IF ~can_claim_admin_monthly(a.ue, t, u, FALSE)
        THEN [ue |-> a.ue, tx |-> tx, amc |-> amc, success |-> FALSE,
              amount |-> 0]
        ELSE IF ~pm[u]
        THEN [ue |-> a.ue, tx |-> tx, amc |-> amc, success |-> FALSE,
              amount |-> 0]
        ELSE [ue |-> CreditAdminBonus(a.ue, t, u),
              tx |-> Append(tx, TxRecord(u, "admin_monthly",
                                ADMIN_MONTHLY_BONUS,
                                "Royal administrator monthly bounty", t,
                                current_gold + ADMIN_MONTHLY_BONUS)),
              amc |-> Append(amc, [user |-> u, claimed_at |-> t,
                                   amount |-> ADMIN_MONTHLY_BONUS]),
              success |-> TRUE, amount |-> ADMIN_MONTHLY_BONUS]

----------------------------------------------------------------------------
(* Wagering engine.  The clock's second 0 is a Monday 00:00 UTC. *)

\* mutant: the window is the last seven days, not the calendar week
get_week_start_rolling(t) == t - 7 * 86400

\* Monday 00:00 UTC of the week of t
get_week_start(t) == t - (t % (7 * 86400))

\* returns (can_gamble, remaining, current_tries); a failed read answers
\* (True, WEEKLY_GAMBLING_TRIES, 0)
can_gamble_weekly(gr, t, u, failed) ==
    LET week_start == get_week_start(t)
        current_tries ==
            Cardinality({i \in 1..Len(gr) :
                            gr[i].user = u /\ gr[i].timestamp >= week_start})
        remaining == Max(0, WEEKLY_GAMBLING_TRIES - current_tries)
    IN  IF failed
        THEN [can_gamble |-> TRUE, remaining |-> WEEKLY_GAMBLING_TRIES,
              current_tries |-> 0]
        ELSE [can_gamble |-> remaining > 0, remaining |-> remaining,
              current_tries |-> current_tries]

\* the game tables: roll is random.random() in hundredths
GameOutcome(game_type, roll) ==
    IF game_type = "dice"
    THEN [known |-> TRUE, win |-> roll < 50,
          multiplier |-> IF roll < 50 THEN 2 ELSE 0]
    ELSE IF game_type = "coin"
    THEN [known |-> TRUE, win |-> roll < 48,
          multiplier |-> IF roll < 48 THEN 2 ELSE 0]
    ELSE IF game_type = "slots"
    THEN IF roll < 5 THEN [known |-> TRUE, win |-> TRUE, multiplier |-> 10]
         ELSE IF roll < 15
         THEN [known |-> TRUE, win |-> TRUE, multiplier |-> 3]
         ELSE IF roll < 45
         THEN [known |-> TRUE, win |-> TRUE, multiplier |-> 2]
         ELSE [known |-> TRUE, win |-> FALSE, multiplier |-> 0]
    ELSE [known |-> FALSE, win |-> FALSE, multiplier |-> 0]

\* mutant: the cap is tested before the purse
GambleRefusalCapFirst(can_gamble, amount, current_gold, gold_cap, known) ==
    IF ~can_gamble THEN "quota"
    ELSE IF amount <= 0 THEN "positive"
    ELSE IF current_gold >= gold_cap THEN "cap"
    ELSE IF amount > current_gold THEN "insufficient"
    ELSE IF ~known THEN "unknown"
    ELSE "none"

\* the early returns of gamble, in the order of the code
GambleRefusal(can_gamble, amount, current_gold, gold_cap, known) ==
    IF ~can_gamble THEN "quota"
    ELSE IF amount <= 0 THEN "positive"
    ELSE IF amount > current_gold THEN "insufficient"
    ELSE IF current_gold >= gold_cap THEN "cap"
    ELSE IF ~known THEN "unknown"
    ELSE "none"

\* mutant: a lost wager costs nothing
NetChangeLossFree(win_amount, amount) ==
    IF win_amount = 0 THEN 0 ELSE win_amount - amount

\* net_change = win_amount - amount
NetChange(win_amount, amount) == win_amount - amount

\* mutant: a lost wager is not counted
UpdateGambleStatsWinsOnly(ue, u, win) ==
    IF ~HasRow(ue, u) THEN ue
    ELSE IF win THEN [ue EXCEPT ![u].gamble_wins = @ + 1]
    ELSE ue

\* the UPDATE of gamble_wins or gamble_losses
UpdateGambleStats(ue, u, win) ==
    IF ~HasRow(ue, u) THEN ue
    ELSE IF win THEN [ue EXCEPT ![u].gamble_wins = @ + 1]
    ELSE [ue EXCEPT ![u].gamble_losses = @ + 1]

GamblingRecord(u, game_type, amount, win_amount, win, t) ==
    [user |-> u, game_type |-> game_type, bet_amount |-> amount,
     win_amount |-> win_amount,
     outcome |-> IF win THEN "win" ELSE "loss", timestamp |-> t]

GambleDescription(win) == IF win THEN "Gamed - Won" ELSE "Gamed - Lost"

\* gamble, run without interruption and without storage failure; reason
\* stands for the message: a refusal, "capped" or "tries"
gamble(ue, tx, gr, pm, t, u, amount, game_type, roll) ==
    LET q == can_gamble_weekly(gr, t, u, FALSE)
        b == get_user_balance(ue, u, FALSE)
        c == get_gold_cap(b.ue, pm, u, FALSE)
        g == GameOutcome(game_type, roll)
        refusal == GambleRefusal(q.can_gamble, amount, b.gold, c.val, g.known)
        win_amount == IF g.win THEN amount * g.multiplier ELSE 0
        net_change == NetChange(win_amount, amount)
        r == update_user_balance(c.ue, tx, pm, t, u, net_change,
                                 GambleDescription(g.win), "none")
    IN  IF refusal = "quota"
        THEN [ue |-> ue, tx |-> tx, gr |-> gr, win |-> FALSE,
              win_amount |-> 0, reason |-> refusal, current_gold |-> 0,
              gold_cap |-> 0, new_gold |-> 0, capped |-> FALSE]
        ELSE IF refusal # "none"
        THEN [ue |-> c.ue, tx |-> tx, gr |-> gr, win |-> FALSE,
              win_amount |-> 0, reason |-> refusal, current_gold |-> b.gold,
              gold_cap |-> c.val, new_gold |-> b.gold, capped |-> FALSE]
        ELSE [ue |-> UpdateGambleStats(r.ue, u, g.win), tx |-> r.tx,
              gr |-> Append(gr, GamblingRecord(u, game_type, amount,
                                               win_amount, g.win, t)),
              win |-> g.win, win_amount |-> win_amount,
              reason |-> IF r.capped /\ g.win THEN "capped" ELSE "tries",
              current_gold |-> b.gold, gold_cap |-> c.val,
              new_gold |-> r.new_gold, capped |-> r.capped]

----------------------------------------------------------------------------
(* Tournaments (giveaways).  A row of active_giveaways keeps the columns    *)
(* the handlers read; its id is its position in the table.                  *)

GiveawayRow(message_id, host_id, prize_amount, end_time, winner_count) ==
    [message_id |-> message_id, host_id |-> host_id,
     prize_amount |-> prize_amount, end_time |-> end_time,
     winner_count |-> winner_count, status |-> "active"]

\* INSERT INTO active_giveaways; status takes its default 'active'
create_giveaway(ag, message_id, host_id, prize_amount, end_time, winner_count) ==
    Append(ag, GiveawayRow(message_id, host_id, prize_amount, end_time,
                           winner_count))

\* the ids of the rows WHERE message_id=$1 AND status='active'
ActiveByMessage(ag, message_id) ==
    {i \in 1..Len(ag) :
        ag[i].message_id = message_id /\ ag[i].status = "active"}

\* the checks of tournament_cmd in the order of the code; "none" lets the
\* command go on
TournamentRefusal(permitted, duration_minutes, winner_count, prize_amount) ==
    IF ~permitted THEN "permission"
    ELSE IF duration_minutes < 5 \/ duration_minutes > 1440 THEN "duration"
    ELSE IF winner_count < 1 \/ winner_count > 10 THEN "winners"
    ELSE IF prize_amount < 1 THEN "prize"
    ELSE "none"

\* mutant: the host is charged for one prize only
TotalPrizeSingle(prize_amount, winner_count) == prize_amount

\* total_prize = prize_amount * winner_count
TotalPrize(prize_amount, winner_count) == prize_amount * winner_count

\* tournament_cmd and slash_tournament, without storage failure: the
\* checks, the message (message_id), create_giveaway, the deduction
tournament_cmd(ue, tx, ag, pm, t, host, permitted, duration_minutes, winner_count, prize_amount, message_id) ==
    LET refusal == TournamentRefusal(permitted, duration_minutes,
                                     winner_count, prize_amount)
        b == get_user_balance(ue, host, FALSE)
        total_prize == TotalPrize(prize_amount, winner_count)
        end_time == t + duration_minutes * 60
        r == update_user_balance(b.ue, tx, pm, t, host, 0 - total_prize,
                                 "Funded tournament", "none")
    IN  IF refusal # "none"
        THEN [ue |-> ue, tx |-> tx, ag |-> ag, reason |-> refusal,
              created |-> FALSE, end_time |-> 0]
        ELSE IF b.gold < total_prize
        THEN [ue |-> b.ue, tx |-> tx, ag |-> ag, reason |-> "funds",
              created |-> FALSE, end_time |-> 0]
        ELSE [ue |-> r.ue, tx |-> r.tx,
              ag |-> create_giveaway(ag, message_id, host, prize_amount,
                                     end_time, winner_count),
              reason |-> "created", created |-> TRUE, end_time |-> end_time]

\* enter_giveaway: the SELECT of an existing entry, then the INSERT
enter_giveaway(ge, t, giveaway_id, user_id) ==
    IF \E i \in 1..Len(ge) :
          ge[i].giveaway_id = giveaway_id /\ ge[i].user_id = user_id
    THEN [ge |-> ge, success |-> FALSE, message |-> "Already entered"]
    ELSE [ge |-> Append(ge, [giveaway_id |-> giveaway_id,
                             user_id |-> user_id, entered_at |-> t]),
          success |-> TRUE, message |-> "Entered successfully"]

IsEntryOf(e, giveaway_id) == e.giveaway_id = giveaway_id

\* get_giveaway_entries: the user_id of every entry of the giveaway
get_giveaway_entries(ge, giveaway_id) ==
    LET rows == SelectSeq(ge, LAMBDA e : IsEntryOf(e, giveaway_id))
    IN  [i \in 1..Len(rows) |-> rows[i].user_id]

\* mutant: a position of the list may be drawn again
SamplesWithReplacement(n, k) == [1..k -> 1..n]

\* the results random.sample(entries, k) can give: k distinct positions
\* of the list, in any order
Samples(n, k) ==
    {s \in [1..k -> 1..n] : \A i, j \in 1..k : i # j => s[i] # s[j]}

\* winner_count = min(giveaway['winner_count'], len(entries))
WinnerCount(winner_count, entries) == Min(winner_count, Len(entries))

\* mutant: the ended tournament's row is deleted
MarkEndedDelete(ag, giveaway_id) ==
    [i \in 1..(Len(ag) - 1) |-> IF i < giveaway_id THEN ag[i] ELSE ag[i + 1]]

\* UPDATE active_giveaways SET status='ended' WHERE id=$1
MarkEnded(ag, giveaway_id) ==
    IF giveaway_id \in 1..Len(ag)
    THEN [ag EXCEPT ![giveaway_id].status = "ended"]
    ELSE ag

RECURSIVE AwardPrizes(_, _, _, _, _, _, _)
\* for winner_id in winners: await update_user_balance(winner_id, ...)
AwardPrizes(ue, tx, pm, t, winners, prize_amount, i) ==
    IF i > Len(winners) THEN [ue |-> ue, tx |-> tx]
    ELSE LET r == update_user_balance(ue, tx, pm, t, winners[i],
                                      prize_amount, "Won tournament", "none")
         IN  AwardPrizes(r.ue, r.tx, pm, t, winners, prize_amount, i + 1)

\* mutant: a tournament without entries gives the prize pool back
end_giveaway_refunding(ue, tx, ag, ge, pm, t, giveaway_id, pick) ==
    IF giveaway_id \notin 1..Len(ag) \/ ag[giveaway_id].status # "active"
    THEN [ue |-> ue, tx |-> tx, ag |-> ag, found |-> FALSE,
          winners |-> << >>]
    ELSE LET entries == get_giveaway_entries(ge, giveaway_id)
             winners == [i \in DOMAIN pick |-> entries[pick[i]]]
             g == ag[giveaway_id]
             a == AwardPrizes(ue, tx, pm, t, winners, g.prize_amount, 1)
             back == update_user_balance(ue, tx, pm, t, g.host_id,
                         g.prize_amount * g.winner_count, "Refund", "none")
         IN  IF Len(entries) = 0
             THEN [ue |-> back.ue, tx |-> back.tx,
                   ag |-> MarkEnded(ag, giveaway_id), found |-> TRUE,
                   winners |-> << >>]
             ELSE [ue |-> a.ue, tx |-> a.tx,
                   ag |-> MarkEnded(ag, giveaway_id), found |-> TRUE,
                   winners |-> winners]

\* end_giveaway, run without interruption and without storage failure;
\* pick is the draw of random.sample.  found = FALSE is (None, None)
end_giveaway(ue, tx, ag, ge, pm, t, giveaway_id, pick) ==
    IF giveaway_id \notin 1..Len(ag) \/ ag[giveaway_id].status # "active"
    THEN [ue |-> ue, tx |-> tx, ag |-> ag, found |-> FALSE,
          winners |-> << >>]
    ELSE LET entries == get_giveaway_entries(ge, giveaway_id)
             winners == [i \in DOMAIN pick |-> entries[pick[i]]]
             a == AwardPrizes(ue, tx, pm, t, winners,
                              ag[giveaway_id].prize_amount, 1)
         IN  IF Len(entries) = 0
             THEN [ue |-> ue, tx |-> tx, ag |-> MarkEnded(ag, giveaway_id),
                   found |-> TRUE, winners |-> << >>]
             ELSE [ue |-> a.ue, tx |-> a.tx,
                   ag |-> MarkEnded(ag, giveaway_id), found |-> TRUE,
                   winners |-> winners]

\* the draws random.sample can make when giveaway_id is ended now
Picks(ag, ge, giveaway_id) ==
    IF giveaway_id \notin 1..Len(ag) THEN {<< >>}
    ELSE LET entries == get_giveaway_entries(ge, giveaway_id)
         IN  Samples(Len(entries),
                     WinnerCount(ag[giveaway_id].winner_count, entries))

----------------------------------------------------------------------------
(* What a call returned, as its caller sees it *)

NoCall ==
    [op |-> "none", user |-> "none", change |-> 0, at |-> 0,
     current_gold |-> 0, total_earned |-> 0, total_spent |-> 0,
     gold_cap |-> 0, new_gold |-> 0, capped |-> FALSE, committed |-> FALSE,
     fail |-> "none", success |-> FALSE, amount |-> 0, remaining |-> 0]

\* a call of update_user_balance and its locals
AdjustCall(u, gold_change, t, fail, r) ==
    [NoCall EXCEPT !.op = "update_user_balance", !.user = u,
                   !.change = gold_change, !.at = t,
                   !.current_gold = r.current_gold,
                   !.total_earned = r.total_earned,
                   !.total_spent = r.total_spent, !.gold_cap = r.gold_cap,
                   !.new_gold = r.new_gold, !.capped = r.capped,
                   !.committed = r.committed, !.fail = fail,
                   !.success = r.committed]

ClaimCall(op, u, t, success, amount, remaining) ==
    [NoCall EXCEPT !.op = op, !.user = u, !.at = t, !.success = success,
                   !.amount = amount, !.remaining = remaining]

\* a call of gamble: its arguments and what it returned
GambleCall(u, amount, game_type, roll, t, r) ==
    [op |-> "gamble", user |-> u, amount |-> amount, game_type |-> game_type,
     at |-> t, win |-> r.win, win_amount |-> r.win_amount,
     reason |-> r.reason, success |-> r.reason \in {"tries", "capped"},
     current_gold |-> r.current_gold, gold_cap |-> r.gold_cap,
     new_gold |-> r.new_gold, capped |-> r.capped]

\* a call of tournament_cmd: its arguments and what came of it
TournamentCall(host, t, r) ==
    [op |-> "tournament_cmd", user |-> host, at |-> t, reason |-> r.reason,
     success |-> r.created]

\* a call of end_giveaway and what it returned
EndCall(giveaway_id, t, r) ==
    [op |-> "end_giveaway", id |-> giveaway_id, at |-> t, found |-> r.found,
     winners |-> r.winners, success |-> r.found]

\* a task that has not called update_user_balance yet, and its locals
IdleTask ==
    [pc |-> "idle", user |-> "none", change |-> 0, current_gold |-> 0,
     total_earned |-> 0, total_spent |-> 0, gold_cap |-> 0, new_gold |-> 0,
     capped |-> FALSE]

----------------------------------------------------------------------------
(* Initial state: empty tables *)

Init ==
    /\ user_economy = [u \in {} |-> NewRow]
    /\ transactions = << >>
    /\ admin_monthly_claims = << >>
    /\ perm = [u \in Users |-> FALSE]
    /\ now = 0
    /\ ticks = 0
    /\ procs = [p \in Procs |-> IdleTask]
    /\ last = NoCall
    /\ prev = NoCall
    /\ gambling_records = << >>
    /\ active_giveaways = << >>
    /\ giveaway_entries = << >>
    /\ timers = {}
    /\ shop_items = << >>
    /\ user_inventory = << >>
    /\ member_roles = [u \in Users |-> {}]

----------------------------------------------------------------------------
(* Sequential handlers: one action per call *)

\* update_user_balance(u, gold_change) called directly
AdjustStep(u, gold_change, fail) ==
    /\ Len(transactions) < MaxTx
    /\ LET r == update_user_balance(user_economy, transactions, perm, now, u,
                                    gold_change, "adjust", fail)
       IN  /\ user_economy' = r.ue
           /\ transactions' = r.tx
           /\ last' = AdjustCall(u, gold_change, now, fail, r)
    /\ UNCHANGED <<admin_monthly_claims, perm, now, ticks, procs>>
    /\ UNCHANGED other_tables
    /\ UNCHANGED shop_tables

\* a call that meets no storage failure; prev keeps the call before it
Adjust(u, gold_change) ==
    /\ AdjustStep(u, gold_change, "none")
    /\ prev' = last

\* a call in which the storage call at `fail` raises
AdjustFailing(u, gold_change, fail) ==
    /\ AdjustStep(u, gold_change, fail)
    /\ UNCHANGED prev

\* purse_cmd -> get_user_balance: showing a purse creates the account
Purse(u) ==
    /\ user_economy' = get_user_balance(user_economy, u, FALSE).ue
    /\ UNCHANGED <<transactions, admin_monthly_claims, perm, now, ticks,
                   procs, last, prev>>
    /\ UNCHANGED other_tables
    /\ UNCHANGED shop_tables

\* stipend_cmd -> claim_daily, daily_amount = random.randint(3, 7)
ClaimDaily(u) ==
    /\ Len(transactions) < MaxTx
    /\ \E daily_amount \in DailyAmounts :
          LET r == claim_daily(user_economy, transactions, perm, now, u,
                               daily_amount)
          IN  /\ user_economy' = r.ue
              /\ transactions' = r.tx
              /\ last' = ClaimCall("claim_daily", u, now, r.success,
                                   r.amount, 0)
    /\ UNCHANGED <<admin_monthly_claims, perm, now, ticks, procs, prev>>
    /\ UNCHANGED other_tables
    /\ UNCHANGED shop_tables

\* labour_cmd -> work, work_amount = random.randint(8, 15)
Work(u) ==
    /\ Len(transactions) < MaxTx
    /\ \E work_amount \in WorkAmounts :
          LET r == work(user_economy, transactions, perm, now, u, work_amount)
          IN  /\ user_economy' = r.ue
              /\ transactions' = r.tx
              /\ last' = ClaimCall("work", u, now, r.success, r.amount,
                                   r.remaining)
    /\ UNCHANGED <<admin_monthly_claims, perm, now, ticks, procs, prev>>
    /\ UNCHANGED other_tables
    /\ UNCHANGED shop_tables

ClaimAdminMonthlyBonus(u) ==
    /\ Len(transactions) < MaxTx
    /\ LET r == claim_admin_monthly_bonus(user_economy, transactions,
                                          admin_monthly_claims, perm, now, u)
       IN  /\ user_economy' = r.ue
           /\ transactions' = r.tx
           /\ admin_monthly_claims' = r.amc
           /\ last' = ClaimCall("claim_admin_monthly_bonus", u, now,
                                r.success, r.amount, 0)
    /\ UNCHANGED <<perm, now, ticks, procs, prev>>
    /\ UNCHANGED other_tables
    /\ UNCHANGED shop_tables

\* the Discord side grants or withdraws the Administrator permission
SetPermission(u, b) ==
    /\ perm[u] # b
    /\ perm' = [perm EXCEPT ![u] = b]
    /\ UNCHANGED <<user_economy, transactions, admin_monthly_claims, now,
                   ticks, procs, last, prev>>
    /\ UNCHANGED other_tables
    /\ UNCHANGED shop_tables

\* wall-clock time passes
Tick(d) ==
    /\ ticks < MaxTicks
    /\ now' = now + d
    /\ ticks' = ticks + 1
    /\ UNCHANGED <<user_economy, transactions, admin_monthly_claims, perm,
                   procs, last, prev>>
    /\ UNCHANGED other_tables
    /\ UNCHANGED shop_tables

DoPurse == \E u \in Claimants : Purse(u)

DoClaimDaily == \E u \in Claimants : ClaimDaily(u)

DoWork == \E u \in Claimants : Work(u)

DoClaimAdminMonthlyBonus == \E u \in Claimants : ClaimAdminMonthlyBonus(u)

DoSetPermission == \E u \in Users, b \in BOOLEAN : SetPermission(u, b)

DoSetClaimantPermission ==
    \E u \in Claimants, b \in BOOLEAN : SetPermission(u, b)

DoTick == \E d \in TickSteps : Tick(d)

\* the handlers of the claim scheduler, each run to completion
Next ==
    \/ DoPurse
    \/ DoClaimDaily
    \/ DoWork
    \/ DoClaimAdminMonthlyBonus
    \/ DoSetClaimantPermission
    \/ DoTick

Spec == Init /\ [][Next]_vars

----------------------------------------------------------------------------
(* The balance engine alone: any sequence of update_user_balance calls *)

DoAdjust == \E u \in Users, d \in AdjustDeltas : Adjust(u, d)

NextAdjust ==
    \/ DoAdjust
    \/ DoSetPermission

SpecAdjust == Init /\ [][NextAdjust]_vars

----------------------------------------------------------------------------
(* The balance engine with storage failures *)

DoAdjustOk ==
    \E u \in Claimants, d \in FailDeltas : AdjustFailing(u, d, "none")

DoAdjustFail ==
    \E u \in Claimants, d \in FailDeltas, f \in FailPoints \ {"none"} :
        AdjustFailing(u, d, f)

NextFail ==
    \/ DoAdjustOk
    \/ DoAdjustFail
    \/ DoSetClaimantPermission

SpecFail == Init /\ [][NextFail]_vars

----------------------------------------------------------------------------
(* Concurrent calls of update_user_balance: each await is a step, and the   *)
(* event loop may run the other task between two steps                      *)

\* a task enters update_user_balance(u, gold_change)
ub_call(p, u, gold_change) ==
    /\ procs[p].pc = "idle"
    /\ procs' = [procs EXCEPT ![p].pc = "read", ![p].user = u,
                              ![p].change = gold_change]
    /\ UNCHANGED <<user_economy, transactions, admin_monthly_claims, perm,
                   now, ticks, last, prev>>
    /\ UNCHANGED other_tables
    /\ UNCHANGED shop_tables

\* await get_user_balance(user_id, guild_id)
ub_read(p) ==
    /\ procs[p].pc = "read"
    /\ LET r == get_user_balance(user_economy, procs[p].user, FALSE)
       IN  /\ user_economy' = r.ue
           /\ procs' = [procs EXCEPT ![p].pc = "cap",
                                     ![p].current_gold = r.gold,
                                     ![p].total_earned = r.total_earned,
                                     ![p].total_spent = r.total_spent]
    /\ UNCHANGED <<transactions, admin_monthly_claims, perm, now, ticks,
                   last, prev>>
    /\ UNCHANGED other_tables
    /\ UNCHANGED shop_tables

\* await get_gold_cap(user_id, guild_id)
ub_cap(p) ==
    /\ procs[p].pc = "cap"
    /\ LET c == get_gold_cap(user_economy, perm, procs[p].user, FALSE)
       IN  /\ user_economy' = c.ue
           /\ procs' = [procs EXCEPT ![p].pc = "write", ![p].gold_cap = c.val]
    /\ UNCHANGED <<transactions, admin_monthly_claims, perm, now, ticks,
                   last, prev>>
    /\ UNCHANGED other_tables
    /\ UNCHANGED shop_tables

\* the transaction that writes the values computed from the task's locals
ub_write(p) ==
    /\ procs[p].pc = "write"
    /\ LET t == procs[p]
           new_gold == NewGold(t.current_gold, t.change, t.gold_cap)
           w == BalanceTransaction(user_economy, transactions, t.user,
                    t.change, "adjust", now, new_gold,
                    NewTotalEarned(t.total_earned, t.change),
                    NewTotalSpent(t.total_spent, t.change), "none")
       IN  /\ user_economy' = w.ue
           /\ transactions' = w.tx
           /\ procs' = [procs EXCEPT ![p].pc = "done",
                            ![p].new_gold = new_gold,
                            ![p].capped = WasCapped(t.current_gold, new_gold,
                                                    t.change)]
    /\ UNCHANGED <<admin_monthly_claims, perm, now, ticks, last, prev>>
    /\ UNCHANGED other_tables
    /\ UNCHANGED shop_tables

DoCall == \E p \in Procs, u \in Users, d \in AdjustDeltas : ub_call(p, u, d)

DoRead == \E p \in Procs : ub_read(p)

DoCap == \E p \in Procs : ub_cap(p)

DoWrite == \E p \in Procs : ub_write(p)

NextConc ==
    \/ DoCall
    \/ DoRead
    \/ DoCap
    \/ DoWrite
    \/ DoSetPermission

SpecConc == Init /\ [][NextConc]_vars

----------------------------------------------------------------------------
(* The wagering engine: gamble_cmd -> gamble, one call at a time *)

Gamble(u, amount, game_type, roll) ==
    /\ LET r == gamble(user_economy, transactions, gambling_records, perm,
                       now, u, amount, game_type, roll)
       IN  /\ user_economy' = r.ue
           /\ transactions' = r.tx
           /\ gambling_records' = r.gr
           /\ last' = GambleCall(u, amount, game_type, roll, now, r)
    /\ UNCHANGED <<admin_monthly_claims, perm, now, ticks, procs, prev,
                   active_giveaways, giveaway_entries, timers>>
    /\ UNCHANGED shop_tables

DoGamble ==
    /\ Len(transactions) < MaxTx
    /\ \E u \in Claimants, amount \in WagerAmounts, game_type \in GameTypes,
          roll \in Rolls : Gamble(u, amount, game_type, roll)

NextGamble ==
    \/ DoGamble
    \/ DoPurse
    \/ DoSetClaimantPermission

SpecGamble == Init /\ [][NextGamble]_vars

----------------------------------------------------------------------------
(* The weekly allowance: one member wagers until the allowance is used up,  *)
(* across a Monday 00:00 UTC boundary                                       *)

DoQuotaGamble ==
    /\ Len(gambling_records) < MaxPlays
    /\ \E u \in Claimants, amount \in QuotaWagers,
          game_type \in QuotaGameTypes, roll \in QuotaRolls :
          Gamble(u, amount, game_type, roll)

\* a credit that fills the purse to its cap
DoFund == \E u \in Claimants : AdjustFailing(u, 150, "none")

DoQuotaTick ==
    /\ Len(gambling_records) \in QuotaTickPoints
    /\ \E d \in QuotaTickSteps : Tick(d)

NextQuota ==
    \/ DoQuotaGamble
    \/ DoFund
    \/ DoQuotaTick

SpecQuota == Init /\ [][NextQuota]_vars

----------------------------------------------------------------------------
(* Tournaments, one handler at a time *)

\* tournament_cmd; the new message's id is the next unused one, and an
\* accepted command leaves an end_tournament_later task asleep
TournamentCmd(host, permitted, duration_minutes, winner_count, prize_amount) ==
    /\ Len(active_giveaways) < MaxGiveaways
    /\ LET message_id == Len(active_giveaways) + 1
           r == tournament_cmd(user_economy, transactions, active_giveaways,
                               perm, now, host, permitted, duration_minutes,
                               winner_count, prize_amount, message_id)
       IN  /\ user_economy' = r.ue
           /\ transactions' = r.tx
           /\ active_giveaways' = r.ag
           /\ timers' = IF r.created
                        THEN timers \cup {[message_id |-> message_id,
                                           due |-> r.end_time]}
                        ELSE timers
           /\ last' = TournamentCall(host, now, r)
    /\ UNCHANGED <<admin_monthly_claims, perm, now, ticks, procs, prev,
                   gambling_records, giveaway_entries>>
    /\ UNCHANGED shop_tables

\* on_reaction_add: the crossed swords under a tournament's message
ReactionAdd(user_id, message_id) ==
    /\ ActiveByMessage(active_giveaways, message_id) # {}
    /\ LET giveaway_id ==
               CHOOSE i \in ActiveByMessage(active_giveaways, message_id) :
                   \A j \in ActiveByMessage(active_giveaways, message_id) :
                       i <= j
       IN  giveaway_entries' =
               enter_giveaway(giveaway_entries, now, giveaway_id, user_id).ge
    /\ UNCHANGED <<user_economy, transactions, admin_monthly_claims, perm,
                   now, ticks, procs, last, prev, gambling_records,
                   active_giveaways, timers>>
    /\ UNCHANGED shop_tables

\* end_giveaway(giveaway_id) at time t, called by end_tournament or
\* directly
EndGiveawayStep(giveaway_id, t) ==
    /\ \E pick \in Picks(active_giveaways, giveaway_entries, giveaway_id) :
          LET r == end_giveaway(user_economy, transactions, active_giveaways,
                                giveaway_entries, perm, t, giveaway_id, pick)
          IN  /\ user_economy' = r.ue
              /\ transactions' = r.tx
              /\ active_giveaways' = r.ag
              /\ last' = EndCall(giveaway_id, t, r)
    /\ UNCHANGED <<admin_monthly_claims, perm, ticks, procs, prev,
                   gambling_records, giveaway_entries>>
    /\ UNCHANGED shop_tables

\* a direct call, at any time, also for an id that was ended or never made
EndGiveaway(giveaway_id) ==
    /\ EndGiveawayStep(giveaway_id, now)
    /\ UNCHANGED <<now, timers>>

\* mutant: the task wakes up and ends without ending its tournament
EndTournamentLaterLost(tm) ==
    /\ tm \in timers
    /\ now' = Max(now, tm.due)
    /\ timers' = timers \ {tm}
    /\ UNCHANGED <<user_economy, transactions, admin_monthly_claims, perm,
                   ticks, procs, last, prev, gambling_records,
                   active_giveaways, giveaway_entries>>
    /\ UNCHANGED shop_tables

\* end_tournament_later: asyncio.sleep(delay_seconds) runs out, which
\* takes the clock to the task's due time if it is not there yet; the task
\* then ends the active tournament of its message, if there is one
EndTournamentLater(tm) ==
    /\ tm \in timers
    /\ now' = Max(now, tm.due)
    /\ timers' = timers \ {tm}
    /\ IF ActiveByMessage(active_giveaways, tm.message_id) = {}
       THEN UNCHANGED <<user_economy, transactions, admin_monthly_claims,
                        perm, ticks, procs, last, prev, gambling_records,
                        active_giveaways, giveaway_entries>>
       ELSE \E giveaway_id \in
                   ActiveByMessage(active_giveaways, tm.message_id) :
               EndGiveawayStep(giveaway_id, Max(now, tm.due))
    /\ UNCHANGED shop_tables

DoTournamentCmd ==
    \E host \in Claimants, permitted \in BOOLEAN, a \in TournamentArgs :
        TournamentCmd(host, permitted, a[1], a[2], a[3])

DoReactionAdd ==
    \E u \in Users, message_id \in 1..MaxGiveaways : ReactionAdd(u, message_id)

DoEndGiveaway == \E giveaway_id \in 1..MaxGiveaways : EndGiveaway(giveaway_id)

DoEndTournamentLater == \E tm \in timers : EndTournamentLater(tm)

NextDrawing ==
    \/ DoTournamentCmd
    \/ DoReactionAdd
    \/ DoEndGiveaway
    \/ DoEndTournamentLater

SpecDrawing == Init /\ [][NextDrawing]_vars

----------------------------------------------------------------------------
(* Hosting a tournament from a purse that the claim handlers have filled *)

NextFunding ==
    \/ DoTournamentCmd
    \/ DoPurse
    \/ DoSetClaimantPermission
    \/ DoClaimAdminMonthlyBonus
    \/ DoTick

SpecFunding == Init /\ [][NextFunding]_vars

----------------------------------------------------------------------------
(* Two triggers that end one tournament: a task per end_giveaway call, a    *)
(* step per await up to the UPDATE; the UPDATE, the prizes and the commit   *)
(* run here without a task switch                                           *)

\* a task inside end_giveaway, and its locals
EndTask(pc, giveaway_id, winners, found) ==
    [pc |-> pc, id |-> giveaway_id, winners |-> winners, found |-> found]

\* a trigger calls end_giveaway(giveaway_id)
eg_call(p, giveaway_id) ==
    /\ procs[p].pc = "idle"
    /\ giveaway_id \in 1..Len(active_giveaways)
    /\ procs' = [procs EXCEPT ![p] =
           EndTask("select", giveaway_id, << >>, FALSE)]
    /\ UNCHANGED <<user_economy, transactions, admin_monthly_claims, perm,
                   now, ticks, last, prev>>
    /\ UNCHANGED other_tables
    /\ UNCHANGED shop_tables

\* SELECT * FROM active_giveaways WHERE id=$1 AND status='active': the
\* task sees the status that is committed
eg_select(p) ==
    /\ procs[p].pc = "select"
    /\ procs' = [procs EXCEPT ![p] =
           IF active_giveaways[procs[p].id].status = "active"
           THEN EndTask("entries", procs[p].id, << >>, TRUE)
           ELSE EndTask("done", procs[p].id, << >>, FALSE)]
    /\ UNCHANGED <<user_economy, transactions, admin_monthly_claims, perm,
                   now, ticks, last, prev>>
    /\ UNCHANGED other_tables
    /\ UNCHANGED shop_tables

\* await get_giveaway_entries(giveaway_id), then random.sample
eg_entries(p) ==
    /\ procs[p].pc = "entries"
    /\ LET giveaway_id == procs[p].id
           entries == get_giveaway_entries(giveaway_entries, giveaway_id)
       IN  \E pick \in Picks(active_giveaways, giveaway_entries,
                              giveaway_id) :
              procs' = [procs EXCEPT ![p] =
                  EndTask("finish", giveaway_id,
                          [i \in DOMAIN pick |-> entries[pick[i]]], TRUE)]
    /\ UNCHANGED <<user_economy, transactions, admin_monthly_claims, perm,
                   now, ticks, last, prev>>
    /\ UNCHANGED other_tables
    /\ UNCHANGED shop_tables

\* UPDATE active_giveaways SET status='ended', the prizes of the task's
\* winners, and the commit
eg_finish(p) ==
    /\ procs[p].pc = "finish"
    /\ LET t == procs[p]
           a == AwardPrizes(user_economy, transactions, perm, now, t.winners,
                            active_giveaways[t.id].prize_amount, 1)
       IN  /\ user_economy' = a.ue
           /\ transactions' = a.tx
           /\ active_giveaways' = MarkEnded(active_giveaways, t.id)
           /\ procs' = [procs EXCEPT ![p] =
                  EndTask("done", t.id, t.winners, TRUE)]
    /\ UNCHANGED <<admin_monthly_claims, perm, now, ticks, last, prev,
                   gambling_records, giveaway_entries, timers>>
    /\ UNCHANGED shop_tables

DoEndCall ==
    \E p \in Procs, giveaway_id \in 1..MaxGiveaways : eg_call(p, giveaway_id)

DoEndSelect == \E p \in Procs : eg_select(p)

DoEndEntries == \E p \in Procs : eg_entries(p)

DoEndFinish == \E p \in Procs : eg_finish(p)

NextDrawingConc ==
    \/ DoTournamentCmd
    \/ DoReactionAdd
    \/ DoEndCall
    \/ DoEndSelect
    \/ DoEndEntries
    \/ DoEndFinish

SpecDrawingConc == Init /\ [][NextDrawingConc]_vars

----------------------------------------------------------------------------
(* Concurrent claim commands: a task per command, a step per await of the   *)
(* handler; update_user_balance and the bonus transaction run here without  *)
(* a task switch inside them                                                *)

\* a task inside one of the three claim functions, and its locals
ClaimTask(pc, op, u, amount, success) ==
    [pc |-> pc, op |-> op, user |-> u, amount |-> amount, success |-> success]

\* a task enters claim_daily, work or claim_admin_monthly_bonus
claim_call(p, op, u) ==
    /\ procs[p].pc = "idle"
    /\ procs' = [procs EXCEPT ![p] = ClaimTask("check", op, u, 0, FALSE)]
    /\ UNCHANGED <<user_economy, transactions, admin_monthly_claims, perm,
                   now, ticks, last, prev>>
    /\ UNCHANGED other_tables
    /\ UNCHANGED shop_tables

\* claim_daily: if not await can_claim_daily(...)
cd_check(p) ==
    /\ procs[p].pc = "check"
    /\ procs[p].op = "claim_daily"
    /\ \E daily_amount \in DailyAmounts :
          procs' = [procs EXCEPT ![p] =
              IF can_claim_daily(user_economy, now, procs[p].user, FALSE)
              THEN ClaimTask("credit", "claim_daily", procs[p].user,
                             daily_amount, FALSE)
              ELSE ClaimTask("done", "claim_daily", procs[p].user, 0, FALSE)]
    /\ UNCHANGED <<user_economy, transactions, admin_monthly_claims, perm,
                   now, ticks, last, prev>>
    /\ UNCHANGED other_tables
    /\ UNCHANGED shop_tables

\* claim_daily: await update_user_balance(..., daily_amount, ...)
cd_credit(p) ==
    /\ procs[p].pc = "credit"
    /\ procs[p].op = "claim_daily"
    /\ LET t == procs[p]
           r == update_user_balance(user_economy, transactions, perm, now,
                    t.user, t.amount, "Royal daily stipend", "none")
       IN  /\ user_economy' = r.ue
           /\ transactions' = r.tx
           /\ procs' = [procs EXCEPT ![p] =
                  ClaimTask("done", "claim_daily", t.user, t.amount, TRUE)]
    /\ UNCHANGED <<admin_monthly_claims, perm, now, ticks, last, prev>>
    /\ UNCHANGED other_tables
    /\ UNCHANGED shop_tables

\* work: await get_labour_cooldown_status(...); if not can_work: return
wk_check(p) ==
    /\ procs[p].pc = "check"
    /\ procs[p].op = "work"
    /\ \E work_amount \in WorkAmounts :
          procs' = [procs EXCEPT ![p] =
              IF get_labour_cooldown_status(user_economy, now, procs[p].user,
                                            FALSE).can_work
              THEN ClaimTask("credit", "work", procs[p].user, work_amount,
                             FALSE)
              ELSE ClaimTask("done", "work", procs[p].user, 0, FALSE)]
    /\ UNCHANGED <<user_economy, transactions, admin_monthly_claims, perm,
                   now, ticks, last, prev>>
    /\ UNCHANGED other_tables
    /\ UNCHANGED shop_tables

\* work: await update_user_balance(..., work_amount, ...)
wk_credit(p) ==
    /\ procs[p].pc = "credit"
    /\ procs[p].op = "work"
    /\ LET t == procs[p]
           r == update_user_balance(user_economy, transactions, perm, now,
                    t.user, t.amount, "Honest labour", "none")
       IN  /\ user_economy' = r.ue
           /\ transactions' = r.tx
           /\ procs' = [procs EXCEPT ![p] =
                  ClaimTask("stamp", "work", t.user, t.amount, FALSE)]
    /\ UNCHANGED <<admin_monthly_claims, perm, now, ticks, last, prev>>
    /\ UNCHANGED other_tables
    /\ UNCHANGED shop_tables

\* work: the UPDATE user_economy SET work_cooldown, then return True
wk_stamp(p) ==
    /\ procs[p].pc = "stamp"
    /\ procs[p].op = "work"
    /\ user_economy' = StampWorkCooldown(user_economy, now, procs[p].user)
    /\ procs' = [procs EXCEPT ![p] =
           ClaimTask("done", "work", procs[p].user, procs[p].amount, TRUE)]
    /\ UNCHANGED <<transactions, admin_monthly_claims, perm, now, ticks,
                   last, prev>>
    /\ UNCHANGED other_tables
    /\ UNCHANGED shop_tables

\* claim_admin_monthly_bonus: the awaits of is_user_admin and of
\* can_claim_admin_monthly, and the permission test
am_check(p) ==
    /\ procs[p].pc = "check"
    /\ procs[p].op = "claim_admin_monthly_bonus"
    /\ LET u == procs[p].user
           a == is_user_admin(user_economy, perm, u, FALSE)
           go == /\ a.val
                 /\ can_claim_admin_monthly(a.ue, now, u, FALSE)
                 /\ perm[u]
       IN  /\ user_economy' = a.ue
           /\ procs' = [procs EXCEPT ![p] =
                  ClaimTask(IF go THEN "credit" ELSE "done",
                            "claim_admin_monthly_bonus", u, 0, FALSE)]
    /\ UNCHANGED <<transactions, admin_monthly_claims, perm, now, ticks,
                   last, prev>>
    /\ UNCHANGED other_tables
    /\ UNCHANGED shop_tables

\* claim_admin_monthly_bonus: the transaction that credits the bonus
am_credit(p) ==
    /\ procs[p].pc = "credit"
    /\ procs[p].op = "claim_admin_monthly_bonus"
    /\ LET u == procs[p].user
           current_gold == IF HasRow(user_economy, u)
                           THEN user_economy[u].gold ELSE 0
       IN  /\ user_economy' = CreditAdminBonus(user_economy, now, u)
           /\ transactions' = Append(transactions,
                  TxRecord(u, "admin_monthly", ADMIN_MONTHLY_BONUS,
                           "Royal administrator monthly bounty", now,
                           current_gold + ADMIN_MONTHLY_BONUS))
           /\ admin_monthly_claims' = Append(admin_monthly_claims,
                  [user |-> u, claimed_at |-> now,
                   amount |-> ADMIN_MONTHLY_BONUS])
           /\ procs' = [procs EXCEPT ![p] =
                  ClaimTask("done", "claim_admin_monthly_bonus", u,
                            ADMIN_MONTHLY_BONUS, TRUE)]
    /\ UNCHANGED <<perm, now, ticks, last, prev>>
    /\ UNCHANGED other_tables
    /\ UNCHANGED shop_tables

ClaimOps == {"claim_daily", "work", "claim_admin_monthly_bonus"}

DoClaimCall ==
    \E p \in Procs, op \in ClaimOps, u \in Claimants : claim_call(p, op, u)

DoDailyCheck == \E p \in Procs : cd_check(p)

DoDailyCredit == \E p \in Procs : cd_credit(p)

DoWorkCheck == \E p \in Procs : wk_check(p)

DoWorkCredit == \E p \in Procs : wk_credit(p)

DoWorkStamp == \E p \in Procs : wk_stamp(p)

DoBonusCheck == \E p \in Procs : am_check(p)

DoBonusCredit == \E p \in Procs : am_credit(p)

NextClaimConc ==
    \/ DoClaimCall
    \/ DoDailyCheck
    \/ DoDailyCredit
    \/ DoWorkCheck
    \/ DoWorkCredit
    \/ DoWorkStamp
    \/ DoBonusCheck
    \/ DoBonusCredit
    \/ DoPurse
    \/ DoSetClaimantPermission
    \/ DoTick

SpecClaimConc == Init /\ [][NextClaimConc]_vars

----------------------------------------------------------------------------
(* Two reactions of one member under one tournament message: a task per     *)
(* on_reaction_add event, a step per await                                  *)

\* a task inside on_reaction_add -> enter_giveaway, and its locals
EnterTask(pc, giveaway_id, user_id, success) ==
    [pc |-> pc, id |-> giveaway_id, user |-> user_id, success |-> success]

\* on_reaction_add: SELECT * FROM active_giveaways WHERE message_id=$1 AND
\* status='active', then the call of enter_giveaway
en_call(p, user_id, message_id) ==
    /\ procs[p].pc = "idle"
    /\ ActiveByMessage(active_giveaways, message_id) # {}
    /\ \E giveaway_id \in ActiveByMessage(active_giveaways, message_id) :
          procs' = [procs EXCEPT ![p] =
              EnterTask("existing", giveaway_id, user_id, FALSE)]
    /\ UNCHANGED <<user_economy, transactions, admin_monthly_claims, perm,
                   now, ticks, last, prev>>
    /\ UNCHANGED other_tables
    /\ UNCHANGED shop_tables

\* SELECT id FROM giveaway_entries WHERE giveaway_id=$1 AND user_id=$2
en_select(p) ==
    /\ procs[p].pc = "existing"
    /\ LET t == procs[p]
           r == enter_giveaway(giveaway_entries, now, t.id, t.user)
       IN  procs' = [procs EXCEPT ![p] =
               IF r.success
               THEN EnterTask("insert", t.id, t.user, FALSE)
               ELSE EnterTask("done", t.id, t.user, FALSE)]
    /\ UNCHANGED <<user_economy, transactions, admin_monthly_claims, perm,
                   now, ticks, last, prev>>
    /\ UNCHANGED other_tables
    /\ UNCHANGED shop_tables

\* INSERT INTO giveaway_entries (giveaway_id, user_id, entered_at)
en_insert(p) ==
    /\ procs[p].pc = "insert"
    /\ LET t == procs[p]
       IN  /\ giveaway_entries' =
                  Append(giveaway_entries,
                         [giveaway_id |-> t.id, user_id |-> t.user,
                          entered_at |-> now])
           /\ procs' = [procs EXCEPT ![p] =
                  EnterTask("done", t.id, t.user, TRUE)]
    /\ UNCHANGED <<user_economy, transactions, admin_monthly_claims, perm,
                   now, ticks, last, prev, gambling_records, active_giveaways,
                   timers>>
    /\ UNCHANGED shop_tables

DoEnterCall ==
    \E p \in Procs, u \in Users, message_id \in 1..MaxGiveaways :
        en_call(p, u, message_id)

DoEnterSelect == \E p \in Procs : en_select(p)

DoEnterInsert == \E p \in Procs : en_insert(p)

NextEnterConc ==
    \/ DoTournamentCmd
    \/ DoEnterCall
    \/ DoEnterSelect
    \/ DoEnterInsert

SpecEnterConc == Init /\ [][NextEnterConc]_vars

----------------------------------------------------------------------------
(* The royal shop: addware_cmd -> add_shop_item, purchase_cmd -> buy_item   *)

\* wares put on sale in one run, and rows of user_inventory in one run
MaxItems == 2

MaxInventory == 2

\* arguments of add_shop_item (price, stock, role): a ware with one piece,
\* an unlimited ware that confers the same role, and a ware that no
\* starting purse can pay
ShopArgs == {<<30, 1, "knight">>, <<30, 0 - 1, "knight">>, <<200, 1, "baron">>}

\* places where a storage call of buy_item can raise: inside
\* update_user_balance (FailPoints), at the INSERT INTO user_inventory, at
\* the UPDATE of the stock
BuyFailPoints == FailPoints \cup {"inventory", "stock"}

\* INSERT INTO shop_items; the ware takes the name of its role
add_shop_item(si, price, role, stock) ==
    Append(si, [name |-> role, price |-> price, role_id |-> role,
                stock |-> stock])

\* the returns of buy_item before any write, in the order of the code
BuyRefusal(found, stock, user_gold, price, gold_cap, has_role) ==
    IF ~found THEN "missing"
    ELSE IF stock = 0 THEN "sold_out"
    ELSE IF user_gold < price THEN "insufficient"
    ELSE IF user_gold - price > gold_cap THEN "cap"
    ELSE IF has_role THEN "has_role"
    ELSE "none"

\* mutant: the stock of a limited ware is left as it was
DecrementStockSkipped(si, item_id) == si

\* if item['stock'] > 0: UPDATE shop_items SET stock=stock-1 WHERE id=$1
DecrementStock(si, item_id) ==
    IF si[item_id].stock > 0
    THEN [si EXCEPT ![item_id].stock = @ - 1]
    ELSE si

InventoryRow(user_id, item_id, t) ==
    [user_id |-> user_id, item_id |-> item_id, purchased_at |-> t]

PurchaseDescription(name) == "Purchased " \o name \o " from royal shop"

\* the failure that update_user_balance meets inside buy_item
BalanceFail(fail) == IF fail \in FailPoints THEN fail ELSE "none"

\* mutant: a role that cannot be granted fails the purchase like a storage
\* error does
buy_item_grant_required(ue, tx, si, ui, roles, pm, t, user_id, item_id, grant, fail) ==
    LET found == item_id \in 1..Len(si)
        item == IF found THEN si[item_id]
                ELSE [name |-> "", price |-> 0, role_id |-> "", stock |-> 0]
        b == get_user_balance(ue, user_id, FALSE)
        c == get_gold_cap(b.ue, pm, user_id, FALSE)
        refusal == BuyRefusal(found, item.stock, b.gold, item.price, c.val,
                              item.role_id \in roles[user_id])
        r == update_user_balance(c.ue, tx, pm, t, user_id, 0 - item.price,
                                 PurchaseDescription(item.name),
                                 BalanceFail(fail))
    IN  IF refusal \in {"missing", "sold_out"}
        THEN [ue |-> ue, tx |-> tx, si |-> si, ui |-> ui, roles |-> roles,
              success |-> FALSE, reason |-> refusal]
        ELSE IF refusal # "none"
        THEN [ue |-> c.ue, tx |-> tx, si |-> si, ui |-> ui, roles |-> roles,
              success |-> FALSE, reason |-> refusal]
        ELSE IF fail = "inventory" \/ (fail = "stock" /\ item.stock > 0)
                \/ ~grant
        THEN [ue |-> r.ue, tx |-> r.tx, si |-> si, ui |-> ui,
              roles |-> roles, success |-> FALSE, reason |-> "failed"]
        ELSE [ue |-> r.ue, tx |-> r.tx, si |-> DecrementStock(si, item_id),
              ui |-> Append(ui, InventoryRow(user_id, item_id, t)),
              roles |-> [roles EXCEPT ![user_id] = @ \cup {item.role_id}],
              success |-> TRUE, reason |-> "bought"]

\* buy_item.  get_user_balance, get_gold_cap and update_user_balance run on
\* pool connections of their own, so what they write stays when the
\* transaction of buy_item rolls back; update_user_balance catches its own
\* exceptions.  `grant` says whether member.add_roles succeeds.
buy_item(ue, tx, si, ui, roles, pm, t, user_id, item_id, grant, fail) ==
    LET found == item_id \in 1..Len(si)
        item == IF found THEN si[item_id]
                ELSE [name |-> "", price |-> 0, role_id |-> "", stock |-> 0]
        b == get_user_balance(ue, user_id, FALSE)
        c == get_gold_cap(b.ue, pm, user_id, FALSE)
        refusal == BuyRefusal(found, item.stock, b.gold, item.price, c.val,
                              item.role_id \in roles[user_id])
        r == update_user_balance(c.ue, tx, pm, t, user_id, 0 - item.price,
                                 PurchaseDescription(item.name),
                                 BalanceFail(fail))
    IN  IF refusal \in {"missing", "sold_out"}
        THEN [ue |-> ue, tx |-> tx, si |-> si, ui |-> ui, roles |-> roles,
              success |-> FALSE, reason |-> refusal]
        ELSE IF refusal # "none"
        THEN [ue |-> c.ue, tx |-> tx, si |-> si, ui |-> ui, roles |-> roles,
              success |-> FALSE, reason |-> refusal]
        ELSE IF fail = "inventory" \/ (fail = "stock" /\ item.stock > 0)
        THEN [ue |-> r.ue, tx |-> r.tx, si |-> si, ui |-> ui,
              roles |-> roles, success |-> FALSE, reason |-> "failed"]
        ELSE [ue |-> r.ue, tx |-> r.tx, si |-> DecrementStock(si, item_id),
              ui |-> Append(ui, InventoryRow(user_id, item_id, t)),
              roles |-> IF grant
                        THEN [roles EXCEPT ![user_id] = @ \cup {item.role_id}]
                        ELSE roles,
              success |-> TRUE, reason |-> "bought"]

\* a call of buy_item: its arguments and what came of it
BuyCall(user_id, item_id, t, fail, r) ==
    [op |-> "buy_item", user |-> user_id, item |-> item_id, at |-> t,
     fail |-> fail, reason |-> r.reason, success |-> r.success]

IsBuy(c) == c.op = "buy_item"

\* addware_cmd: price > 0 was checked by the command
AddShopItem(price, stock, role) ==
    /\ Len(shop_items) < MaxItems
    /\ shop_items' = add_shop_item(shop_items, price, role, stock)
    /\ UNCHANGED <<user_economy, transactions, admin_monthly_claims, perm,
                   now, ticks, procs, last, prev, user_inventory,
                   member_roles>>
    /\ UNCHANGED other_tables

\* purchase_cmd -> buy_item
BuyItem(user_id, item_id, grant, fail) ==
    /\ Len(user_inventory) < MaxInventory
    /\ Len(transactions) < MaxTx + MaxInventory
    /\ LET r == buy_item(user_economy, transactions, shop_items,
                         user_inventory, member_roles, perm, now, user_id,
                         item_id, grant, fail)
       IN  /\ user_economy' = r.ue
           /\ transactions' = r.tx
           /\ shop_items' = r.si
           /\ user_inventory' = r.ui
           /\ member_roles' = r.roles
           /\ last' = BuyCall(user_id, item_id, now, fail, r)
    /\ UNCHANGED <<admin_monthly_claims, perm, now, ticks, procs, prev>>
    /\ UNCHANGED other_tables

DoAddShopItem == \E a \in ShopArgs : AddShopItem(a[1], a[2], a[3])

DoBuyItem ==
    \E u \in Claimants, item_id \in 1..MaxItems, grant \in BOOLEAN :
        BuyItem(u, item_id, grant, "none")

\* the runs of the shop settle the buyer's permission first, then fill the
\* purse, then put the wares on sale, then sell
DoShopPermission ==
    shop_items = << >> /\ transactions = << >> /\ DoSetClaimantPermission

DoShopFund == shop_items = << >> /\ DoFund

DoShopBonus == shop_items = << >> /\ DoClaimAdminMonthlyBonus

DoShopAdd == user_inventory = << >> /\ ~IsBuy(last) /\ DoAddShopItem

NextShop ==
    \/ DoShopPermission
    \/ DoShopFund
    \/ DoShopBonus
    \/ DoShopAdd
    \/ DoBuyItem

SpecShop == Init /\ [][NextShop]_vars

\* the shop with storage failures inside buy_item
DoBuyItemFailing ==
    \E u \in Claimants, item_id \in 1..MaxItems, fail \in BuyFailPoints :
        BuyItem(u, item_id, TRUE, fail)

NextShopFail ==
    \/ DoAddShopItem
    \/ DoBuyItemFailing

SpecShopFail == Init /\ [][NextShopFail]_vars

----------------------------------------------------------------------------
(* Payments between members: pay_cmd -> transfer_gold *)

\* amounts handed to transfer_gold: zero, one that a fresh purse can pay
\* and a fresh purse can hold, one that a fresh purse can pay but not hold,
\* and one above any purse
TransferAmounts == {0, 20, 30, 200}

\* mutant: the purse of the receiver is not tested against its cap
TransferRefusalNoCap(amount, sender_gold, same, receiver_gold, receiver_cap) ==
    IF amount <= 0 THEN "positive"
    ELSE IF amount > sender_gold THEN "insufficient"
    ELSE IF same THEN "self"
    ELSE "none"

\* the returns of transfer_gold before any write, in the order of the code
TransferRefusal(amount, sender_gold, same, receiver_gold, receiver_cap) ==
    IF amount <= 0 THEN "positive"
    ELSE IF amount > sender_gold THEN "insufficient"
    ELSE IF same THEN "self"
    ELSE IF receiver_gold + amount > receiver_cap THEN "cap"
    ELSE "none"

PaidDescription(amount, receiver_id) ==
    "Paid " \o ToString(amount) \o " gold to subject " \o receiver_id

ReceivedDescription(amount, sender_id) ==
    "Received " \o ToString(amount) \o " gold from subject " \o sender_id

\* transfer_gold: the three reads, the four tests, then the debit and the
\* credit, each a call of update_user_balance
transfer_gold(ue, tx, pm, t, sender_id, receiver_id, amount) ==
    LET s == get_user_balance(ue, sender_id, FALSE)
        r == get_user_balance(s.ue, receiver_id, FALSE)
        c == get_gold_cap(r.ue, pm, receiver_id, FALSE)
        refusal == TransferRefusal(amount, s.gold, sender_id = receiver_id,
                                   r.gold, c.val)
        debit == update_user_balance(c.ue, tx, pm, t, sender_id, 0 - amount,
                                     PaidDescription(amount, receiver_id),
                                     "none")
        credit == update_user_balance(debit.ue, debit.tx, pm, t, receiver_id,
                                      amount,
                                      ReceivedDescription(amount, sender_id),
                                      "none")
    IN  IF refusal # "none"
        THEN [ue |-> c.ue, tx |-> tx, success |-> FALSE, reason |-> refusal,
              sender_gold |-> s.gold, receiver_gold |-> r.gold,
              receiver_cap |-> c.val]
        ELSE [ue |-> credit.ue, tx |-> credit.tx, success |-> TRUE,
              reason |-> "paid", sender_gold |-> s.gold,
              receiver_gold |-> r.gold, receiver_cap |-> c.val]

\* a call of transfer_gold: its arguments, its locals and what it returned
TransferCall(sender_id, receiver_id, amount, t, r) ==
    [op |-> "transfer_gold", user |-> sender_id, receiver |-> receiver_id,
     amount |-> amount, at |-> t, reason |-> r.reason, success |-> r.success,
     sender_gold |-> r.sender_gold, receiver_gold |-> r.receiver_gold,
     receiver_cap |-> r.receiver_cap]

TransferGold(sender_id, receiver_id, amount) ==
    /\ Len(transactions) <= MaxTx
    /\ LET r == transfer_gold(user_economy, transactions, perm, now,
                              sender_id, receiver_id, amount)
       IN  /\ user_economy' = r.ue
           /\ transactions' = r.tx
           /\ last' = TransferCall(sender_id, receiver_id, amount, now, r)
    /\ UNCHANGED <<admin_monthly_claims, perm, now, ticks, procs, prev>>
    /\ UNCHANGED other_tables
    /\ UNCHANGED shop_tables

DoTransferGold ==
    \E sender_id \in Users, receiver_id \in Users, amount \in TransferAmounts :
        TransferGold(sender_id, receiver_id, amount)

NextTransfer ==
    \/ DoTransferGold
    \/ DoSetPermission

SpecTransfer == Init /\ [][NextTransfer]_vars

----------------------------------------------------------------------------
(* The wagering engine with storage failures *)

\* places where a storage call of an accepted gamble can raise: inside
\* update_user_balance (FailPoints), at the UPDATE of the win/loss counter,
\* at the INSERT INTO gambling_records
GambleFailPoints == FailPoints \cup {"stats", "record"}

\* the wagers and the draws of the runs with storage failures: a win and
\* a loss at dice, of a wager whose winnings fit under the cap and of one
\* whose winnings do not
FailWagers == {20, 30}

FailRolls == {10, 90}

\* gamble in which the storage call at `fail` raises.  update_user_balance
\* commits on a connection of its own and catches its own exceptions; the
\* counter and the record are one later transaction, and an exception in
\* it is caught by gamble, which returns (False, 0, "An ill omen ...")
gamble_failing(ue, tx, gr, pm, t, u, amount, game_type, roll, fail) ==
    LET ok == gamble(ue, tx, gr, pm, t, u, amount, game_type, roll)
        b == get_user_balance(ue, u, FALSE)
        c == get_gold_cap(b.ue, pm, u, FALSE)
        g == GameOutcome(game_type, roll)
        win_amount == IF g.win THEN amount * g.multiplier ELSE 0
        r == update_user_balance(c.ue, tx, pm, t, u,
                                 NetChange(win_amount, amount),
                                 GambleDescription(g.win), BalanceFail(fail))
    IN  IF ok.reason \notin {"tries", "capped"} THEN ok
        ELSE IF fail \in {"stats", "record"}
        THEN [ok EXCEPT !.ue = r.ue, !.tx = r.tx, !.gr = gr, !.win = FALSE,
                        !.win_amount = 0, !.reason = "failed"]
        ELSE [ok EXCEPT !.ue = UpdateGambleStats(r.ue, u, g.win),
                        !.tx = r.tx, !.new_gold = r.new_gold,
                        !.capped = r.capped,
                        !.reason = IF r.capped /\ g.win THEN "capped"
                                   ELSE "tries"]

GambleFailing(u, amount, game_type, roll, fail) ==
    /\ Len(transactions) < MaxTx
    /\ Len(gambling_records) < MaxTx
    /\ LET r == gamble_failing(user_economy, transactions, gambling_records,
                               perm, now, u, amount, game_type, roll, fail)
       IN  /\ user_economy' = r.ue
           /\ transactions' = r.tx
           /\ gambling_records' = r.gr
           /\ last' = GambleCall(u, amount, game_type, roll, now, r)
    /\ UNCHANGED <<admin_monthly_claims, perm, now, ticks, procs, prev,
                   active_giveaways, giveaway_entries, timers>>
    /\ UNCHANGED shop_tables

DoGambleOk ==
    \E u \in Claimants, amount \in FailWagers, roll \in FailRolls :
        GambleFailing(u, amount, "dice", roll, "none")

DoGambleFail ==
    \E u \in Claimants, amount \in FailWagers, roll \in FailRolls,
       fail \in GambleFailPoints \ {"none"} :
        GambleFailing(u, amount, "dice", roll, fail)

NextGambleFail ==
    \/ DoGambleOk
    \/ DoGambleFail

SpecGambleFail == Init /\ [][NextGambleFail]_vars

----------------------------------------------------------------------------
(* Concurrent first reads of a purse: a task per get_user_balance call, a   *)
(* step per await                                                           *)

\* mutant: the table has no primary key, so a second INSERT is accepted
TryInsertRowNoKey(ue, u, row) == [ue |-> InsertRow(ue, u, row), ok |-> TRUE]

\* INSERT INTO user_economy under PRIMARY KEY (user_id, guild_id): the
\* INSERT of a pair that has a row raises
TryInsertRow(ue, u, row) ==
    IF HasRow(ue, u) THEN [ue |-> ue, ok |-> FALSE]
    ELSE [ue |-> InsertRow(ue, u, row), ok |-> TRUE]

\* a task inside get_user_balance: whether its SELECT found a row, whether
\* its INSERT was accepted, and the gold and total_gold_earned it returns
ReadTask(pc, u, found, inserted, gold, total_earned) ==
    [pc |-> pc, user |-> u, found |-> found, inserted |-> inserted,
     gold |-> gold, total_earned |-> total_earned]

gb_call(p, u) ==
    /\ procs[p].pc = "idle"
    /\ procs' = [procs EXCEPT ![p] = ReadTask("fetch", u, FALSE, FALSE, 0, 0)]
    /\ UNCHANGED <<user_economy, transactions, admin_monthly_claims, perm,
                   now, ticks, last, prev>>
    /\ UNCHANGED other_tables
    /\ UNCHANGED shop_tables

\* SELECT gold, ... FROM user_economy WHERE user_id=$1 AND guild_id=$2
gb_select(p) ==
    /\ procs[p].pc = "fetch"
    /\ LET u == procs[p].user
       IN  procs' = [procs EXCEPT ![p] =
               IF HasRow(user_economy, u)
               THEN ReadTask("done", u, TRUE, FALSE, user_economy[u].gold,
                             user_economy[u].total_gold_earned)
               ELSE ReadTask("create", u, FALSE, FALSE, 0, 0)]
    /\ UNCHANGED <<user_economy, transactions, admin_monthly_claims, perm,
                   now, ticks, last, prev>>
    /\ UNCHANGED other_tables
    /\ UNCHANGED shop_tables

\* INSERT INTO user_economy (user_id, guild_id, gold, total_gold_earned)
\* VALUES ($1, $2, 100, 100); the except branch returns all zeros
gb_insert(p) ==
    /\ procs[p].pc = "create"
    /\ LET u == procs[p].user
           r == TryInsertRow(user_economy, u, NewRow)
       IN  /\ user_economy' = r.ue
           /\ procs' = [procs EXCEPT ![p] =
                  IF r.ok
                  THEN ReadTask("done", u, FALSE, TRUE, STARTING_GOLD,
                                STARTING_GOLD)
                  ELSE ReadTask("done", u, FALSE, FALSE, 0, 0)]
    /\ UNCHANGED <<transactions, admin_monthly_claims, perm, now, ticks,
                   last, prev>>
    /\ UNCHANGED other_tables
    /\ UNCHANGED shop_tables

\* a task that has returned is free for the next call
gb_return(p) ==
    /\ procs[p].pc = "done"
    /\ "found" \in DOMAIN procs[p]
    /\ procs' = [procs EXCEPT ![p] = IdleTask]
    /\ UNCHANGED <<user_economy, transactions, admin_monthly_claims, perm,
                   now, ticks, last, prev>>
    /\ UNCHANGED other_tables
    /\ UNCHANGED shop_tables

DoReadCall == \E p \in Procs, u \in Users : gb_call(p, u)

DoReadSelect == \E p \in Procs : gb_select(p)

DoReadInsert == \E p \in Procs : gb_insert(p)

DoReadReturn == \E p \in Procs : gb_return(p)

NextReadConc ==
    \/ DoReadCall
    \/ DoReadSelect
    \/ DoReadInsert
    \/ DoReadReturn

SpecReadConc == Init /\ [][NextReadConc]_vars

----------------------------------------------------------------------------
(* The end of a tournament left to its timer: the tasks that tournament_cmd *)
(* leaves asleep, resumed by the event loop                                 *)

\* the event loop resumes an end_tournament_later task: the task's timer
\* goes away.  Of the steps below only those of EndTournamentLater do
\* this, and one of them is possible whenever a timer is left
TimerRuns == \E tm \in timers : timers' = timers \ {tm}

\* time passes once while a task is asleep
DoTimerTick == timers # {} /\ ticks = 0 /\ DoTick

NextTimer ==
    \/ DoTournamentCmd
    \/ DoReactionAdd
    \/ DoTimerTick
    \/ DoEndTournamentLater

\* a running event loop does not leave a task asleep for ever whose sleep
\* has a finite length (at most 1440 minutes)
SpecTimer == Init /\ [][NextTimer]_vars /\ WF_timers(TimerRuns)

----------------------------------------------------------------------------
(* Payments among other calls and with storage failures: a task per         *)
(* transfer_gold call; the three reads and the tests are one step, the      *)
(* debit and the credit are one step each, a whole update_user_balance      *)

\* where the storage call of the debit or of the credit can raise
TransferFailPoints == {"none", "read", "update"}

\* the amounts of the payments that run as tasks: one that a fresh purse
\* can pay and a fresh purse can hold, and one above any purse
TaskAmounts == {20, 200}

\* the deltas of the direct calls that run between the steps of a payment
RivalDeltas == {0 - 150, 150}

\* a task inside transfer_gold, and its arguments
TransferTask(pc, sender_id, receiver_id, amount, success) ==
    [pc |-> pc, user |-> sender_id, receiver |-> receiver_id,
     amount |-> amount, success |-> success]

tg_call(p, sender_id, receiver_id, amount) ==
    /\ procs[p].pc = "idle"
    /\ procs' = [procs EXCEPT ![p] =
           TransferTask("tests", sender_id, receiver_id, amount, FALSE)]
    /\ UNCHANGED <<user_economy, transactions, admin_monthly_claims, perm,
                   now, ticks, last, prev>>
    /\ UNCHANGED other_tables
    /\ UNCHANGED shop_tables

\* the reads of both purses and of the receiver's cap, and the four tests
tg_tests(p) ==
    /\ procs[p].pc = "tests"
    /\ LET k == procs[p]
           s == get_user_balance(user_economy, k.user, FALSE)
           r == get_user_balance(s.ue, k.receiver, FALSE)
           c == get_gold_cap(r.ue, perm, k.receiver, FALSE)
           refusal == TransferRefusal(k.amount, s.gold, k.user = k.receiver,
                                      r.gold, c.val)
       IN  /\ user_economy' = c.ue
           /\ procs' = [procs EXCEPT ![p].pc =
                  IF refusal = "none" THEN "debit" ELSE "done"]
    /\ UNCHANGED <<transactions, admin_monthly_claims, perm, now, ticks,
                   last, prev>>
    /\ UNCHANGED other_tables
    /\ UNCHANGED shop_tables

\* await update_user_balance(sender_id, guild_id, -amount, ...); its
\* exceptions stay inside it
tg_debit(p, fail) ==
    /\ procs[p].pc = "debit"
    /\ LET k == procs[p]
           r == update_user_balance(user_economy, transactions, perm, now,
                    k.user, 0 - k.amount,
                    PaidDescription(k.amount, k.receiver), fail)
       IN  /\ user_economy' = r.ue
           /\ transactions' = r.tx
           /\ procs' = [procs EXCEPT ![p].pc = "credit"]
    /\ UNCHANGED <<admin_monthly_claims, perm, now, ticks, last, prev>>
    /\ UNCHANGED other_tables
    /\ UNCHANGED shop_tables

\* await update_user_balance(receiver_id, guild_id, amount, ...), then
\* return True, ""
tg_credit(p, fail) ==
    /\ procs[p].pc = "credit"
    /\ LET k == procs[p]
           r == update_user_balance(user_economy, transactions, perm, now,
                    k.receiver, k.amount,
                    ReceivedDescription(k.amount, k.user), fail)
       IN  /\ user_economy' = r.ue
           /\ transactions' = r.tx
           /\ procs' = [procs EXCEPT ![p].pc = "done", ![p].success = TRUE]
    /\ UNCHANGED <<admin_monthly_claims, perm, now, ticks, last, prev>>
    /\ UNCHANGED other_tables
    /\ UNCHANGED shop_tables

DoTransferCall ==
    \E p \in Procs, sender_id \in Users, receiver_id \in Users,
       amount \in TaskAmounts :
        tg_call(p, sender_id, receiver_id, amount)

DoTransferTests == \E p \in Procs : tg_tests(p)

DoTransferDebit ==
    \E p \in Procs, fail \in TransferFailPoints : tg_debit(p, fail)

DoTransferCredit ==
    \E p \in Procs, fail \in TransferFailPoints : tg_credit(p, fail)

\* another command spends from or pays into a purse between two steps
DoRivalAdjust == \E u \in Users, d \in RivalDeltas : Adjust(u, d)

NextTransferConc ==
    \/ DoTransferCall
    \/ DoTransferTests
    \/ DoTransferDebit
    \/ DoTransferCredit
    \/ DoRivalAdjust

SpecTransferConc == Init /\ [][NextTransferConc]_vars

----------------------------------------------------------------------------
(* Hosting a tournament among other calls: a task per tournament_cmd call;  *)
(* the checks with the read of the host's purse, create_giveaway, and the   *)
(* deduction are one step each                                              *)

\* arguments of the tournament_cmd calls that run as tasks: a duration that
\* is refused, and three prize pools a fresh purse can pay
TaskTournamentArgs == {<<4, 1, 50>>, <<5, 1, 50>>, <<5, 2, 50>>, <<1440, 2, 1>>}

\* a task inside tournament_cmd: its arguments, the id of its message, and
\* the gold that its update_user_balance call took from the host's purse
TournamentTask(pc, host, duration_minutes, winner_count, prize_amount, message_id, removed) ==
    [pc |-> pc, user |-> host, duration_minutes |-> duration_minutes,
     winner_count |-> winner_count, prize_amount |-> prize_amount,
     message_id |-> message_id, removed |-> removed]

\* a permitted host issues the command; one tournament is announced at a
\* time
tc_call(p, host, duration_minutes, winner_count, prize_amount) ==
    /\ procs[p].pc = "idle"
    /\ Len(active_giveaways) < MaxGiveaways
    /\ \A q \in Procs : procs[q].pc \in {"idle", "done"}
    /\ procs' = [procs EXCEPT ![p] =
           TournamentTask("checks", host, duration_minutes, winner_count,
                          prize_amount, 0, 0)]
    /\ UNCHANGED <<user_economy, transactions, admin_monthly_claims, perm,
                   now, ticks, last, prev>>
    /\ UNCHANGED other_tables
    /\ UNCHANGED shop_tables

\* the checks of the arguments, then host_gold = await get_user_balance and
\* the test host_gold < total_prize
tc_checks(p) ==
    /\ procs[p].pc = "checks"
    /\ LET k == procs[p]
           refusal == TournamentRefusal(TRUE, k.duration_minutes,
                                        k.winner_count, k.prize_amount)
           b == get_user_balance(user_economy, k.user, FALSE)
       IN  IF refusal # "none"
           THEN /\ procs' = [procs EXCEPT ![p].pc = "done"]
                /\ UNCHANGED user_economy
           ELSE /\ user_economy' = b.ue
                /\ procs' = [procs EXCEPT ![p].pc =
                       IF b.gold < TotalPrize(k.prize_amount, k.winner_count)
                       THEN "done" ELSE "create"]
    /\ UNCHANGED <<transactions, admin_monthly_claims, perm, now, ticks,
                   last, prev>>
    /\ UNCHANGED other_tables
    /\ UNCHANGED shop_tables

\* await ctx.send, await message.add_reaction, await create_giveaway
tc_create(p) ==
    /\ procs[p].pc = "create"
    /\ LET k == procs[p]
           message_id == Len(active_giveaways) + 1
       IN  /\ active_giveaways' =
                  create_giveaway(active_giveaways, message_id, k.user,
                                  k.prize_amount,
                                  now + k.duration_minutes * 60,
                                  k.winner_count)
           /\ procs' = [procs EXCEPT ![p].pc = "deduct",
                                     ![p].message_id = message_id]
    /\ UNCHANGED <<user_economy, transactions, admin_monthly_claims, perm,
                   now, ticks, last, prev, gambling_records,
                   giveaway_entries, timers>>
    /\ UNCHANGED shop_tables

\* await update_user_balance(host, -total_prize, ...), then
\* bot.loop.create_task(end_tournament_later(...))
tc_deduct(p) ==
    /\ procs[p].pc = "deduct"
    /\ LET k == procs[p]
           g == active_giveaways[k.message_id]
           r == update_user_balance(user_economy, transactions, perm, now,
                    k.user, 0 - TotalPrize(k.prize_amount, k.winner_count),
                    "Funded tournament", "none")
       IN  /\ user_economy' = r.ue
           /\ transactions' = r.tx
           /\ timers' = timers \cup {[message_id |-> k.message_id,
                                      due |-> g.end_time]}
           /\ procs' = [procs EXCEPT ![p].pc = "done",
                            ![p].removed = r.current_gold - r.new_gold]
    /\ UNCHANGED <<admin_monthly_claims, perm, now, ticks, last, prev,
                   gambling_records, active_giveaways, giveaway_entries>>
    /\ UNCHANGED shop_tables

DoTournamentCall ==
    \E p \in Procs, host \in Claimants, a \in TaskTournamentArgs :
        tc_call(p, host, a[1], a[2], a[3])

DoTournamentChecks == \E p \in Procs : tc_checks(p)

DoTournamentCreate == \E p \in Procs : tc_create(p)

DoTournamentDeduct == \E p \in Procs : tc_deduct(p)

\* another command of the host spends from the purse or pays into it
DoHostAdjust == \E u \in Claimants, d \in RivalDeltas : Adjust(u, d)

NextFundingConc ==
    \/ DoTournamentCall
    \/ DoTournamentChecks
    \/ DoTournamentCreate
    \/ DoTournamentDeduct
    \/ DoHostAdjust
    \/ DoReactionAdd
    \/ DoEndTournamentLater

SpecFundingConc == Init /\ [][NextFundingConc]_vars

----------------------------------------------------------------------------
(* Concurrent wagers at the end of the weekly allowance: a task per gamble  *)
(* call; can_gamble_weekly is one step, the rest of gamble is one step      *)

\* a task inside gamble
WagerTask(pc, u, amount) == [pc |-> pc, user |-> u, amount |-> amount]

\* one member wagers, one call at a time, until one try of the week is left
DoQuotaApproach ==
    /\ Len(gambling_records) < WEEKLY_GAMBLING_TRIES - 1
    /\ \A p \in Procs : procs[p].pc = "idle"
    /\ \E u \in Claimants, roll \in QuotaRolls : Gamble(u, 1, "dice", roll)

wg_call(p, u, amount) ==
    /\ procs[p].pc = "idle"
    /\ Len(gambling_records) >= WEEKLY_GAMBLING_TRIES - 1
    /\ procs' = [procs EXCEPT ![p] = WagerTask("quota", u, amount)]
    /\ UNCHANGED <<user_economy, transactions, admin_monthly_claims, perm,
                   now, ticks, last, prev>>
    /\ UNCHANGED other_tables
    /\ UNCHANGED shop_tables

\* can_gamble, remaining_tries, used_tries = await can_gamble_weekly(...)
wg_quota(p) ==
    /\ procs[p].pc = "quota"
    /\ LET q == can_gamble_weekly(gambling_records, now, procs[p].user, FALSE)
       IN  procs' = [procs EXCEPT ![p].pc =
               IF q.can_gamble THEN "play" ELSE "done"]
    /\ UNCHANGED <<user_economy, transactions, admin_monthly_claims, perm,
                   now, ticks, last, prev>>
    /\ UNCHANGED other_tables
    /\ UNCHANGED shop_tables

\* the rest of gamble, for a task whose quota test has passed: gamble is
\* applied to an empty gambling_records, where that test passes, and the
\* record it inserts is appended to the table
wg_play(p, game_type, roll) ==
    /\ procs[p].pc = "play"
    /\ LET k == procs[p]
           r == gamble(user_economy, transactions, << >>, perm, now, k.user,
                       k.amount, game_type, roll)
       IN  /\ user_economy' = r.ue
           /\ transactions' = r.tx
           /\ gambling_records' = gambling_records \o r.gr
           /\ last' = GambleCall(k.user, k.amount, game_type, roll, now, r)
           /\ procs' = [procs EXCEPT ![p].pc = "done"]
    /\ UNCHANGED <<admin_monthly_claims, perm, now, ticks, prev,
                   active_giveaways, giveaway_entries, timers>>
    /\ UNCHANGED shop_tables

DoWagerCall ==
    \E p \in Procs, u \in Claimants, amount \in QuotaWagers :
        wg_call(p, u, amount)

DoWagerQuota == \E p \in Procs : wg_quota(p)

DoWagerPlay ==
    \E p \in Procs, game_type \in QuotaGameTypes, roll \in QuotaRolls :
        wg_play(p, game_type, roll)

NextQuotaConc ==
    \/ DoQuotaApproach
    \/ DoWagerCall
    \/ DoWagerQuota
    \/ DoWagerPlay

SpecQuotaConc == Init /\ [][NextQuotaConc]_vars

----------------------------------------------------------------------------
(* Concurrent purchases: a task per buy_item call; the SELECT of the ware   *)
(* is one step, the rest of the transaction up to its commit is one step    *)

\* a task inside buy_item, and the row of shop_items that its SELECT
\* returned
BuyTask(pc, user_id, item_id, item, success) ==
    [pc |-> pc, user |-> user_id, item_id |-> item_id, item |-> item,
     success |-> success]

bi_call(p, user_id, item_id) ==
    /\ procs[p].pc = "idle"
    /\ item_id \in 1..Len(shop_items)
    /\ procs' = [procs EXCEPT ![p] =
           BuyTask("select", user_id, item_id, shop_items[item_id], FALSE)]
    /\ UNCHANGED <<user_economy, transactions, admin_monthly_claims, perm,
                   now, ticks, last, prev>>
    /\ UNCHANGED other_tables
    /\ UNCHANGED shop_tables

\* item = await conn.fetchrow("SELECT * FROM shop_items WHERE id=$1 ...")
bi_select(p) ==
    /\ procs[p].pc = "select"
    /\ procs' = [procs EXCEPT ![p].pc = "buy",
                              ![p].item = shop_items[procs[p].item_id]]
    /\ UNCHANGED <<user_economy, transactions, admin_monthly_claims, perm,
                   now, ticks, last, prev>>
    /\ UNCHANGED other_tables
    /\ UNCHANGED shop_tables

\* the rest of buy_item with the row that the task read: the tests, the
\* deduction, the INSERT INTO user_inventory, and, if the stock that was
\* read is above 0, UPDATE shop_items SET stock=stock-1, which the store
\* applies to the row as it is when the statement runs
bi_buy(p, grant) ==
    /\ procs[p].pc = "buy"
    /\ LET k == procs[p]
           seen == [shop_items EXCEPT ![k.item_id] = k.item]
           r == buy_item(user_economy, transactions, seen, user_inventory,
                         member_roles, perm, now, k.user, k.item_id, grant,
                         "none")
       IN  /\ user_economy' = r.ue
           /\ transactions' = r.tx
           /\ user_inventory' = r.ui
           /\ member_roles' = r.roles
           /\ shop_items' =
                  IF r.success /\ k.item.stock > 0
                  THEN [shop_items EXCEPT ![k.item_id].stock = @ - 1]
                  ELSE shop_items
           /\ last' = BuyCall(k.user, k.item_id, now, "none", r)
           /\ procs' = [procs EXCEPT ![p].pc = "done",
                                     ![p].success = r.success]
    /\ UNCHANGED <<admin_monthly_claims, perm, now, ticks, prev>>
    /\ UNCHANGED other_tables

DoBuyCall ==
    \E p \in Procs, u \in Users, item_id \in 1..MaxItems : bi_call(p, u, item_id)

DoBuySelect == \E p \in Procs : bi_select(p)

DoBuyWrite == \E p \in Procs, grant \in BOOLEAN : bi_buy(p, grant)

\* the wares are put on sale before the first purchase starts
DoShopOpen == (\A p \in Procs : procs[p].pc = "idle") /\ DoAddShopItem

NextShopConc ==
    \/ DoShopOpen
    \/ DoBuyCall
    \/ DoBuySelect
    \/ DoBuyWrite

SpecShopConc == Init /\ [][NextShopConc]_vars

----------------------------------------------------------------------------
(* The cooldown and quota checks when their own read of the storage fails:  *)
(* each check opens a connection of its own, so its SELECT can raise while  *)
(* the calls that follow it in the handler succeed                          *)

\* claim_daily with the outcome of the check's read as an input
claim_daily_gate(ue, tx, pm, t, u, daily_amount, gate_failed) ==
    IF ~can_claim_daily(ue, t, u, gate_failed)
    THEN [ue |-> ue, tx |-> tx, success |-> FALSE, amount |-> 0]
    ELSE LET r == update_user_balance(ue, tx, pm, t, u, daily_amount,
                                      "Royal daily stipend", "none")
         IN  [ue |-> r.ue, tx |-> r.tx, success |-> TRUE,
              amount |-> daily_amount]

\* work with the outcome of the check's read as an input
work_gate(ue, tx, pm, t, u, work_amount, gate_failed) ==
    LET st == get_labour_cooldown_status(ue, t, u, gate_failed)
    IN  IF ~st.can_work
        THEN [ue |-> ue, tx |-> tx, success |-> FALSE, amount |-> 0,
              remaining |-> st.remaining]
        ELSE LET r == update_user_balance(ue, tx, pm, t, u, work_amount,
                                          "Honest labour", "none")
             IN  [ue |-> StampWorkCooldown(r.ue, t, u), tx |-> r.tx,
                  success |-> TRUE, amount |-> work_amount, remaining |-> 0]

\* claim_admin_monthly_bonus with the outcome of the check's read as an
\* input; is_user_admin and the transaction use connections of their own
claim_admin_monthly_bonus_gate(ue, tx, amc, pm, t, u, gate_failed) ==
    LET a == is_user_admin(ue, pm, u, FALSE)
        current_gold == IF HasRow(a.ue, u) THEN a.ue[u].gold ELSE 0
    IN  IF ~a.val
        THEN [ue |-> a.ue, tx |-> tx, amc |-> amc, success |-> FALSE,
              amount |-> 0]
        ELSE IF ~can_claim_admin_monthly(a.ue, t, u, gate_failed)
        THEN [ue |-> a.ue, tx |-> tx, amc |-> amc, success |-> FALSE,
              amount |-> 0]
        ELSE IF ~pm[u]
        THEN [ue |-> a.ue, tx |-> tx, amc |-> amc, success |-> FALSE,
              amount |-> 0]
        ELSE [ue |-> CreditAdminBonus(a.ue, t, u),
              tx |-> Append(tx, TxRecord(u, "admin_monthly",
                                ADMIN_MONTHLY_BONUS,
                                "Royal administrator monthly bounty", t,
                                current_gold + ADMIN_MONTHLY_BONUS)),
              amc |-> Append(amc, [user |-> u, claimed_at |-> t,
                                   amount |-> ADMIN_MONTHLY_BONUS]),
              success |-> TRUE, amount |-> ADMIN_MONTHLY_BONUS]

\* gamble with the outcome of the quota read as an input: gambling_records
\* is read by can_gamble_weekly only, so past the check the handler runs
\* as it does on a table without records, and its INSERT is appended
gamble_gate(ue, tx, gr, pm, t, u, amount, game_type, roll, gate_failed) ==
    LET q == can_gamble_weekly(gr, t, u, gate_failed)
        rest == gamble(ue, tx, << >>, pm, t, u, amount, game_type, roll)
    IN  IF ~q.can_gamble
        THEN [ue |-> ue, tx |-> tx, gr |-> gr, win |-> FALSE,
              win_amount |-> 0, reason |-> "quota", current_gold |-> 0,
              gold_cap |-> 0, new_gold |-> 0, capped |-> FALSE]
        ELSE [rest EXCEPT !.gr = gr \o rest.gr]

\* a call record that also tells whether the check's read failed
GateCall(c, gate_failed) ==
    [x \in DOMAIN c \cup {"gate_failed"} |->
        IF x = "gate_failed" THEN gate_failed ELSE c[x]]

ClaimDailyGate(u, gate_failed) ==
    /\ Len(transactions) < MaxTx
    /\ \E daily_amount \in DailyAmounts :
          LET r == claim_daily_gate(user_economy, transactions, perm, now, u,
                                    daily_amount, gate_failed)
          IN  /\ user_economy' = r.ue
              /\ transactions' = r.tx
              /\ last' = GateCall(ClaimCall("claim_daily", u, now, r.success,
                                            r.amount, 0), gate_failed)
    /\ UNCHANGED <<admin_monthly_claims, perm, now, ticks, procs, prev>>
    /\ UNCHANGED other_tables
    /\ UNCHANGED shop_tables

WorkGate(u, gate_failed) ==
    /\ Len(transactions) < MaxTx
    /\ \E work_amount \in WorkAmounts :
          LET r == work_gate(user_economy, transactions, perm, now, u,
                             work_amount, gate_failed)
          IN  /\ user_economy' = r.ue
              /\ transactions' = r.tx
              /\ last' = GateCall(ClaimCall("work", u, now, r.success,
                                            r.amount, r.remaining),
                                  gate_failed)
    /\ UNCHANGED <<admin_monthly_claims, perm, now, ticks, procs, prev>>
    /\ UNCHANGED other_tables
    /\ UNCHANGED shop_tables

ClaimAdminMonthlyBonusGate(u, gate_failed) ==
    /\ Len(transactions) < MaxTx
    /\ LET r == claim_admin_monthly_bonus_gate(user_economy, transactions,
                                               admin_monthly_claims, perm,
                                               now, u, gate_failed)
       IN  /\ user_economy' = r.ue
           /\ transactions' = r.tx
           /\ admin_monthly_claims' = r.amc
           /\ last' = GateCall(ClaimCall("claim_admin_monthly_bonus", u, now,
                                         r.success, r.amount, 0),
                               gate_failed)
    /\ UNCHANGED <<perm, now, ticks, procs, prev>>
    /\ UNCHANGED other_tables
    /\ UNCHANGED shop_tables

\* a wager of one coin lost at dice, up to one record past the allowance
GambleGate(u, gate_failed) ==
    /\ Len(gambling_records) < MaxPlays
    /\ LET r == gamble_gate(user_economy, transactions, gambling_records,
                            perm, now, u, 1, "dice", 90, gate_failed)
       IN  /\ user_economy' = r.ue
           /\ transactions' = r.tx
           /\ gambling_records' = r.gr
           /\ last' = GateCall(GambleCall(u, 1, "dice", 90, now, r),
                               gate_failed)
    /\ UNCHANGED <<admin_monthly_claims, perm, now, ticks, procs, prev,
                   active_giveaways, giveaway_entries, timers>>
    /\ UNCHANGED shop_tables

DoClaimDailyGate ==
    \E u \in Claimants, gate_failed \in BOOLEAN : ClaimDailyGate(u, gate_failed)

DoWorkGate ==
    \E u \in Claimants, gate_failed \in BOOLEAN : WorkGate(u, gate_failed)

DoClaimAdminMonthlyBonusGate ==
    \E u \in Claimants, gate_failed \in BOOLEAN :
        ClaimAdminMonthlyBonusGate(u, gate_failed)

DoGambleGate ==
    \E u \in Claimants, gate_failed \in BOOLEAN : GambleGate(u, gate_failed)

NextGate ==
    \/ DoClaimDailyGate
    \/ DoWorkGate
    \/ DoClaimAdminMonthlyBonusGate
    \/ DoGambleGate
    \/ DoSetClaimantPermission

SpecGate == Init /\ [][NextGate]_vars

----------------------------------------------------------------------------
(* Properties *)

\* the ceiling of a row's privileged tier
Ceiling(row) == IF row.is_admin THEN MAX_GOLD_ADMIN ELSE MAX_GOLD_NORMAL

IsAdjust(c) == c.op = "update_user_balance"

\* the call wrote a balance other than current_gold + gold_change
Clamped(c) == c.new_gold # c.current_gold + c.change

\* C1: after any sequence of update_user_balance calls, every stored
\* balance lies between 0 and the ceiling of the account's tier
C1_AdjustKeepsBalanceInRange ==
    \A u \in DOMAIN user_economy :
        /\ 0 <= user_economy[u].gold
        /\ user_economy[u].gold <= Ceiling(user_economy[u])

\* C1 witness: a credit to a privileged account was cut at the admin cap
C1_Witness ==
    /\ IsAdjust(last)
    /\ last.capped
    /\ user_economy[last.user].is_admin
    /\ user_economy[last.user].gold = MAX_GOLD_ADMIN

InRange(row) == 0 <= row.gold /\ row.gold <= Ceiling(row)

\* C2: in every reachable state of the claim handlers, every account has
\* 0 <= balance <= ceiling(privileged tier)
C2_BalanceWithinCeiling ==
    \A u \in DOMAIN user_economy : InRange(user_economy[u])

Unclamped(g) == 0 <= g /\ g <= MAX_GOLD_NORMAL

\* C3: when two concurrent update_user_balance calls on one account have
\* both returned and no clamping applies, the balance is the starting
\* balance plus both deltas
C3_NoLostUpdate ==
    LET a == procs["p1"]
        b == procs["p2"]
    IN  (/\ a.pc = "done"
         /\ b.pc = "done"
         /\ a.user = b.user
         /\ Unclamped(STARTING_GOLD + a.change)
         /\ Unclamped(STARTING_GOLD + b.change)
         /\ Unclamped(STARTING_GOLD + a.change + b.change))
        => user_economy[a.user].gold = STARTING_GOLD + a.change + b.change

\* C4: update_user_balance(+D) followed by update_user_balance(-D) on the
\* same account, neither clamped, restores the balance and adds D to
\* total_gold_earned and D to total_gold_spent
C4_RoundTrip ==
    (/\ IsAdjust(prev)
     /\ IsAdjust(last)
     /\ prev.user = last.user
     /\ prev.change > 0
     /\ last.change = 0 - prev.change
     /\ ~Clamped(prev)
     /\ ~Clamped(last))
    => LET row == user_economy[last.user]
       IN  /\ row.gold = prev.current_gold
           /\ last.new_gold = prev.current_gold
           /\ row.total_gold_earned = prev.total_earned + prev.change
           /\ row.total_gold_spent = prev.total_spent + prev.change

\* C4 witness: such a pair of calls has run
C4_Witness ==
    /\ IsAdjust(prev)
    /\ IsAdjust(last)
    /\ prev.user = last.user
    /\ prev.change > 0
    /\ last.change = 0 - prev.change
    /\ ~Clamped(prev)
    /\ ~Clamped(last)

\* C5: update_user_balance adds the requested delta to total_gold_earned
\* when it is positive and its absolute value to total_gold_spent when it
\* is negative, also when the balance change was clamped; a non-zero delta
\* changes exactly one of the two counters
C5_LifetimeCountersTrackRequested ==
    IsAdjust(last) =>
        LET row == user_economy[last.user]
            d == last.change
        IN  /\ d > 0 => row.total_gold_earned = last.total_earned + d
            /\ d < 0 => row.total_gold_spent = last.total_spent + Abs(d)
            /\ d # 0 => ((row.total_gold_earned # last.total_earned)
                          # (row.total_gold_spent # last.total_spent))

\* C5 witness: a credit was cut at the ceiling and total_gold_earned grew
\* by the full requested amount
C5_Witness ==
    /\ IsAdjust(last)
    /\ last.change > 0
    /\ Clamped(last)
    /\ user_economy[last.user].gold - last.current_gold < last.change
    /\ user_economy[last.user].total_gold_earned
           = last.total_earned + last.change

\* C6: total_gold_earned and total_gold_spent of an account never decrease
\* from one state to the next, in any interleaving
C6_LifetimeMonotone ==
    [][\A u \in DOMAIN user_economy :
          /\ user_economy'[u].total_gold_earned
                 >= user_economy[u].total_gold_earned
          /\ user_economy'[u].total_gold_spent
                 >= user_economy[u].total_gold_spent]_vars

\* C7 as claimed: was_capped is true exactly when the applied balance
\* change differs from the requested delta
C7_CappedIffClamped ==
    IsAdjust(last) => (last.capped <=> Clamped(last))

\* C7 as amended: was_capped is true exactly when current balance plus
\* delta exceeds the ceiling, so a debit cut short by the floor at 0 and a
\* delta applied in full both return false
C7_CappedIffAboveCeiling ==
    IsAdjust(last) =>
        /\ last.capped
               <=> (last.current_gold + last.change
                        > Ceiling(user_economy[last.user]))
        /\ ~Clamped(last) => ~last.capped
        /\ last.current_gold + last.change < 0 => ~last.capped

\* C7 witness: a credit cut at the ceiling returned true
C7_Witness ==
    /\ IsAdjust(last)
    /\ last.capped
    /\ last.new_gold = Ceiling(user_economy[last.user])
    /\ last.new_gold - last.current_gold < last.change

BalanceColumns(row) ==
    <<row.gold, row.total_gold_earned, row.total_gold_spent>>

\* what a call of update_user_balance on u for d may do to the two tables
C8_Step(u, d) ==
    LET before == get_user_balance(user_economy, u, FALSE).ue[u]
        n == Len(transactions)
        appended == Len(transactions') = n + 1
        changed == /\ HasRow(user_economy', u)
                   /\ BalanceColumns(user_economy'[u])
                          # BalanceColumns(before)
    IN  /\ Len(transactions') \in {n, n + 1}
        /\ changed => appended
        /\ appended =>
              /\ transactions'[n + 1].user = u
              /\ transactions'[n + 1].amount = d
              /\ HasRow(user_economy', u) =>
                    /\ transactions'[n + 1].balance_after
                           = user_economy'[u].gold
                    /\ user_economy'[u].total_gold_earned
                           + user_economy'[u].total_gold_spent
                       = last'.total_earned + last'.total_spent + Abs(d)

\* C8: a call of update_user_balance that changes the stored balance or
\* counters appends exactly one record with the requested amount and the
\* resulting balance, the write and the record commit together or not at
\* all, and no step changes or removes an existing record
C8_RecordWithEveryWrite ==
    [][/\ SubSeq(transactions', 1, Len(transactions)) = transactions
       /\ \A u \in Claimants, d \in FailDeltas, f \in FailPoints :
             AdjustFailing(u, d, f) => C8_Step(u, d)]_vars

\* C8 witness: after a committed call, a call whose INSERT raised left the
\* balance as the one record says
C8_Witness ==
    /\ IsAdjust(last)
    /\ last.fail = "insert"
    /\ ~last.committed
    /\ Len(transactions) = 1
    /\ HasRow(user_economy, last.user)
    /\ transactions[1].user = last.user
    /\ user_economy[last.user].gold = transactions[1].balance_after
    /\ last.current_gold + last.change # last.current_gold

\* C9: after a successful claim_daily, can_claim_daily answers False until
\* 86400 seconds have passed since the claim
C9_DailyCooldown ==
    (/\ last.op = "claim_daily"
     /\ last.success
     /\ now - last.at < DAILY_COOLDOWN_SECONDS)
    => ~can_claim_daily(user_economy, now, last.user, FALSE)

\* the timestamps of the credits of work to u
WorkTimes(u) ==
    {transactions[i].timestamp : i \in
        {j \in 1..Len(transactions) :
            /\ transactions[j].user = u
            /\ transactions[j].description = "Honest labour"}}

\* the cooldown check against the last successful work of u
C10_Status(u) ==
    \A t \in WorkTimes(u) :
        (\A t2 \in WorkTimes(u) : t2 <= t) =>
            LET st == get_labour_cooldown_status(user_economy, now, u, FALSE)
                elapsed == now - t
            IN  IF elapsed < 3600
                THEN ~st.can_work /\ st.remaining = 3600 - elapsed
                ELSE st.can_work /\ st.remaining = 0

\* a work call made while the check answers not-allowed
C10_RefusedStep(u) ==
    (/\ Work(u)
     /\ ~get_labour_cooldown_status(user_economy, now, u, FALSE).can_work)
    => /\ UNCHANGED <<user_economy, transactions>>
       /\ ~last'.success
       /\ last'.amount = 0

\* C10: after a successful work the cooldown check answers not-allowed
\* with remaining = 3600 - elapsed, a work call during the cooldown credits
\* nothing, and from 3600 seconds on the check answers allowed, remaining 0
C10_LabourCooldown ==
    /\ [](\A u \in Users : C10_Status(u))
    /\ [][\A u \in Claimants : C10_RefusedStep(u)]_vars

\* C10 witness: a work call one second before the end of the cooldown was
\* refused with one second remaining
C10_Witness ==
    /\ last.op = "work"
    /\ ~last.success
    /\ last.remaining = 1
    /\ WorkTimes(last.user) = {now - 3599}

\* the seconds that must separate two credits of one claim kind
ClaimCooldown(rec) ==
    IF rec.type = "admin_monthly" THEN ADMIN_MONTHLY_SECONDS
    ELSE IF rec.description = "Honest labour"
         THEN LABOUR_COOLDOWN_HOURS * 3600
    ELSE DAILY_COOLDOWN_SECONDS

SameClaimKind(a, b) ==
    /\ a.user = b.user
    /\ a.type = b.type
    /\ a.description = b.description

\* the claim kinds whose handler writes a cooldown timestamp
IsStampedClaim(rec) ==
    rec.type = "admin_monthly" \/ rec.description = "Honest labour"

\* C11: when claim requests of one kind for one account run concurrently,
\* any two credits of that kind to that account lie at least one cooldown
\* period apart (stated for work and the admin bonus; the daily stipend
\* has no stamp at all, see C9)
C11_OneCreditPerCooldown ==
    \A i, j \in 1..Len(transactions) :
        (/\ i < j
         /\ IsStampedClaim(transactions[i])
         /\ SameClaimKind(transactions[i], transactions[j]))
        => transactions[j].timestamp - transactions[i].timestamp
               >= ClaimCooldown(transactions[i])

IsGamble(c) == c.op = "gamble"

\* the calendar week of a second of the clock, weeks starting on Monday
WeekOf(t) == t \div (7 * 86400)

\* the gambling records of the caller in the week of the call, not
\* counting the record of the call itself
TriesBefore(c) ==
    Cardinality({i \in 1..Len(gambling_records) :
                    /\ gambling_records[i].user = c.user
                    /\ WeekOf(gambling_records[i].timestamp) = WeekOf(c.at)})
    - (IF c.success THEN 1 ELSE 0)

KnownGames == {"dice", "coin", "slots"}

\* what any reader of the account sees: balance, lifetime counters and
\* win/loss counters (a purse never opened reads as the starting purse)
AccountView(ue, u) ==
    LET b == get_user_balance(ue, u, FALSE)
    IN  <<b.gold, b.total_earned, b.total_spent, b.wins, b.losses>>

\* the reason the first failing precondition gives to a refused call
C12_FirstFailing(c) ==
    LET row == user_economy[c.user]
    IN  IF TriesBefore(c) >= 30 THEN "quota"
        ELSE IF c.amount <= 0 THEN "positive"
        ELSE IF c.amount > row.gold THEN "insufficient"
        ELSE IF row.gold >= Ceiling(row) THEN "cap"
        ELSE "unknown"

C12_Reasons ==
    IsGamble(last) =>
        IF last.success
        THEN /\ TriesBefore(last) < 30
             /\ last.amount > 0
             /\ last.amount <= last.current_gold
             /\ last.current_gold < last.gold_cap
             /\ last.game_type \in KnownGames
        ELSE /\ last.reason = C12_FirstFailing(last)
             /\ last.reason = "unknown" => last.game_type \notin KnownGames

C12_RefusedStep ==
    (IsGamble(last') /\ ~last'.success)
    => /\ UNCHANGED <<transactions, gambling_records>>
       /\ \A u \in Users :
              AccountView(user_economy', u) = AccountView(user_economy, u)

\* C12: gamble tests the weekly allowance, wager > 0, wager <= balance and
\* balance < cap in this order and returns the reason of the first test
\* that fails; a call refused by one of them or for an unknown game changes
\* no balance, lifetime counter, win/loss counter, transaction or gambling
\* record
C12_RefusalOrderAndFrame ==
    /\ []C12_Reasons
    /\ [][C12_RefusedStep]_vars

\* C12 witness: with the allowance used up, a zero wager on an unknown game
\* was refused for the allowance
C12_Witness ==
    /\ IsGamble(last)
    /\ last.reason = "quota"
    /\ last.amount = 0
    /\ last.game_type = "chess"
    /\ TriesBefore(last) = 30

\* C13: in a sequential run a call with a valid wager is accepted while
\* fewer than 30 gambling records of the account lie in the calendar week
\* of the call, is refused for the allowance once 30 do, and is accepted
\* again from the next Monday 00:00 UTC on
C13_WeeklyQuota ==
    IsGamble(last) =>
        /\ TriesBefore(last) >= 30 <=> last.reason = "quota"
        /\ (/\ TriesBefore(last) < 30
            /\ last.amount > 0
            /\ last.amount <= last.current_gold
            /\ last.current_gold < last.gold_cap
            /\ last.game_type \in KnownGames) => last.success

\* C13 witness: after 30 wagers in one week, a wager in the first second
\* of the next week was accepted
C13_Witness ==
    /\ IsGamble(last)
    /\ last.success
    /\ last.at = 7 * 86400
    /\ Cardinality({i \in 1..Len(gambling_records) :
                       /\ gambling_records[i].user = last.user
                       /\ WeekOf(gambling_records[i].timestamp) = 0}) = 30
    /\ gambling_records[30].timestamp = 7 * 86400 - 1

\* what an accepted call of gamble(u, amount, game_type) does to the tables
C14_Step(u, amount, game_type) ==
    LET n == Len(transactions)
        k == Len(gambling_records)
        before == get_user_balance(user_economy, u, FALSE).ue[u]
        after == user_economy'[u]
        payout == last'.win_amount
    IN  /\ IF last'.win THEN payout \in {2 * amount, 3 * amount, 10 * amount}
                        ELSE payout = 0
        /\ Len(transactions') = n + 1
        /\ SubSeq(transactions', 1, n) = transactions
        /\ transactions'[n + 1].user = u
        /\ transactions'[n + 1].amount = payout - amount
        /\ ~last'.win => transactions'[n + 1].amount = 0 - amount
        /\ Len(gambling_records') = k + 1
        /\ SubSeq(gambling_records', 1, k) = gambling_records
        /\ gambling_records'[k + 1].user = u
        /\ gambling_records'[k + 1].game_type = game_type
        /\ gambling_records'[k + 1].bet_amount = amount
        /\ gambling_records'[k + 1].win_amount = payout
        /\ gambling_records'[k + 1].outcome
               = (IF last'.win THEN "win" ELSE "loss")
        /\ after.gamble_wins
               = before.gamble_wins + (IF last'.win THEN 1 ELSE 0)
        /\ after.gamble_losses
               = before.gamble_losses + (IF last'.win THEN 0 ELSE 1)

\* C14: every accepted wager hands payout - wager to update_user_balance
\* (a loss is exactly -wager), appends exactly one gambling record with the
\* wager, the payout and the win/loss tag, and increments exactly one of
\* gamble_wins and gamble_losses, the one of the outcome
C14_AcceptedWagerRecorded ==
    [][(/\ IsGamble(last')
        /\ last'.success
        /\ \E roll \in Rolls :
               Gamble(last'.user, last'.amount, last'.game_type, roll))
          => C14_Step(last'.user, last'.amount, last'.game_type)]_vars

\* C14 witness: a lost wager was recorded as a debit of the wager, a loss
\* record and one more loss, after a won wager
C14_Witness ==
    /\ IsGamble(last)
    /\ last.success
    /\ ~last.win
    /\ Len(gambling_records) = 2
    /\ gambling_records[1].outcome = "win"
    /\ gambling_records[2].outcome = "loss"
    /\ transactions[Len(transactions)].amount = 0 - last.amount
    /\ user_economy[last.user].gamble_wins = 1
    /\ user_economy[last.user].gamble_losses = 1

\* C15: when the credit of a won wager is cut at the cap, the payout that
\* gamble returns is the wager plus the amount actually credited, not the
\* wager times the multiplier
C15_ReturnsClampedPayout ==
    (IsGamble(last) /\ last.success /\ last.win /\ last.capped)
    => last.win_amount - last.amount = last.new_gold - last.current_gold

IsEnd(c) == c.op = "end_giveaway"

\* C16: a tournament is created active, the only change a step makes to
\* a row of active_giveaways is active -> ended, an ended row is never
\* changed again, and no row is ever removed
C16_StatusOnlyActiveToEnded ==
    [][/\ Len(active_giveaways') >= Len(active_giveaways)
       /\ \A i \in 1..Len(active_giveaways) :
             \/ active_giveaways'[i] = active_giveaways[i]
             \/ /\ active_giveaways[i].status = "active"
                /\ active_giveaways'[i]
                       = [active_giveaways[i] EXCEPT !.status = "ended"]
       /\ \A i \in (Len(active_giveaways) + 1)..Len(active_giveaways') :
             active_giveaways'[i].status = "active"]_vars

\* C16 witness: end_giveaway was called on a tournament that had ended and
\* found nothing to end
C16_Witness ==
    /\ IsEnd(last)
    /\ ~last.found
    /\ last.id \in 1..Len(active_giveaways)
    /\ active_giveaways[last.id].status = "ended"

\* C17: when two triggers have ended the same tournament, in any
\* interleaving, at most one of them selected winners and paid prizes
C17_OneTriggerPays ==
    \A p, q \in Procs :
        (/\ p # q
         /\ procs[p].pc = "done"
         /\ procs[q].pc = "done"
         /\ procs[p].id = procs[q].id)
        => ~(Len(procs[p].winners) > 0 /\ Len(procs[q].winners) > 0)

\* the entries of a tournament, as rows of giveaway_entries
EntryRows(giveaway_id) ==
    {i \in 1..Len(giveaway_entries) :
        giveaway_entries[i].giveaway_id = giveaway_id}

Entrants(giveaway_id) ==
    {giveaway_entries[i].user_id : i \in EntryRows(giveaway_id)}

\* this step ends the active tournament giveaway_id
EndsNow(giveaway_id) ==
    /\ giveaway_id \in 1..Len(active_giveaways)
    /\ active_giveaways[giveaway_id].status = "active"
    /\ active_giveaways'[giveaway_id].status = "ended"

\* the balance a credit of prize leaves on u's account
AfterPrize(u, prize) ==
    LET before == get_user_balance(user_economy, u, FALSE).gold
    IN  Min(before + prize, Ceiling(user_economy'[u]))

C18_Step(giveaway_id) ==
    LET g == active_giveaways[giveaway_id]
        winners == last'.winners
        k == Len(winners)
        n == Len(transactions)
    IN  /\ IsEnd(last')
        /\ last'.id = giveaway_id
        /\ k = Min(g.winner_count, Cardinality(EntryRows(giveaway_id)))
        /\ \A i \in 1..k : winners[i] \in Entrants(giveaway_id)
        /\ \A i, j \in 1..k : i # j => winners[i] # winners[j]
        /\ Len(transactions') = n + k
        /\ SubSeq(transactions', 1, n) = transactions
        /\ \A i \in 1..k :
              /\ transactions'[n + i].user = winners[i]
              /\ transactions'[n + i].amount = g.prize_amount
        /\ \A u \in Users :
              IF \E i \in 1..k : winners[i] = u
              THEN user_economy'[u].gold = AfterPrize(u, g.prize_amount)
              ELSE AccountView(user_economy', u)
                       = AccountView(user_economy, u)

C19_NoEntriesNoPayout ==
    [][\A giveaway_id \in 1..MaxGiveaways :
          (EndsNow(giveaway_id) /\ EntryRows(giveaway_id) = {})
          => /\ IsEnd(last')
             /\ last'.found
             /\ last'.winners = << >>
             /\ UNCHANGED <<transactions, user_economy>>]_vars

\* C19 witness: a funded tournament ended without entries and the host's
\* purse is still short of the prize pool
C19_Witness ==
    /\ IsEnd(last)
    /\ last.found
    /\ last.winners = << >>
    /\ active_giveaways[last.id].status = "ended"
    /\ EntryRows(last.id) = {}
    /\ LET g == active_giveaways[last.id]
       IN  /\ g.prize_amount * g.winner_count > 0
           /\ user_economy[g.host_id].gold
                  = STARTING_GOLD - g.prize_amount * g.winner_count

\* what tournament_cmd(host, duration_minutes, winner_count, prize_amount)
\* may do: refuse and change nothing unless the arguments are within
\* their limits and the host can pay, else create and charge the host
C20_Step(host, duration_minutes, winner_count, prize_amount) ==
    LET host_gold == get_user_balance(user_economy, host, FALSE).gold
        total == prize_amount * winner_count
        n == Len(active_giveaways)
        valid == /\ duration_minutes >= 5
                 /\ duration_minutes <= 1440
                 /\ winner_count >= 1
                 /\ winner_count <= 10
                 /\ prize_amount >= 1
                 /\ host_gold >= total
    IN  /\ ~valid => ~last'.success
        /\ ~last'.success =>
              /\ UNCHANGED <<active_giveaways, transactions>>
              /\ \A u \in Users :
                     AccountView(user_economy', u)
                         = AccountView(user_economy, u)
        /\ last'.success =>
              /\ Len(active_giveaways') = n + 1
              /\ SubSeq(active_giveaways', 1, n) = active_giveaways
              /\ active_giveaways'[n + 1].status = "active"
              /\ active_giveaways'[n + 1].host_id = host
              /\ active_giveaways'[n + 1].prize_amount = prize_amount
              /\ active_giveaways'[n + 1].winner_count = winner_count
              /\ user_economy'[host].gold = host_gold - total

\* C20: tournament_cmd refuses, persisting no tournament and changing no
\* balance, unless duration is within 5..1440 minutes, winner_count within
\* 1..10, prize_amount >= 1 and the host's balance at least prize_amount
\* times winner_count; an accepted command leaves an active row and the
\* host's balance reduced by exactly prize_amount times winner_count
C20_CreateCheckedAndCharged ==
    [][\A host \in Claimants, permitted \in BOOLEAN, a \in TournamentArgs :
          TournamentCmd(host, permitted, a[1], a[2], a[3])
          => C20_Step(host, a[1], a[2], a[3])]_vars

\* C21: no two rows of giveaway_entries have the same giveaway and the same
\* member, also when two enter_giveaway calls of one member on one
\* tournament run concurrently
C21_EntriesUnique ==
    \A i, j \in 1..Len(giveaway_entries) :
        (/\ giveaway_entries[i].giveaway_id = giveaway_entries[j].giveaway_id
         /\ giveaway_entries[i].user_id = giveaway_entries[j].user_id)
        => i = j

\* what a buy_item call on a ware without stock leaves alone
C22_NothingChanged ==
    /\ \A u \in Users :
          AccountView(user_economy', u) = AccountView(user_economy, u)
    /\ transactions' = transactions
    /\ user_inventory' = user_inventory
    /\ shop_items' = shop_items
    /\ member_roles' = member_roles

\* the purchase of the last piece of a ware
C22_LastPieceSold(u, item_id) ==
    /\ last'.success
    /\ shop_items'[item_id].stock = 0
    /\ user_inventory' = Append(user_inventory, InventoryRow(u, item_id, now))

\* a purchase attempt on a ware without stock
C22_SoldOut(item_id) ==
    shop_items[item_id].stock = 0
    => /\ ~last'.success
       /\ last'.reason = "sold_out"
       /\ C22_NothingChanged

\* a step that is the call of buy_item recorded in last'
C22_IsCall ==
    /\ IsBuy(last')
    /\ last'.item \in 1..Len(shop_items)
    /\ \E grant \in BOOLEAN : BuyItem(last'.user, last'.item, grant, "none")

\* C22 as stated: a ware with stock 1 is sold to the first buyer whose purse
\* holds the price and is left with stock 0, and every later attempt is
\* refused as sold out and changes no balance, inventory or stock
C22_StockOneBoughtOnce ==
    [][C22_IsCall =>
          /\ (/\ shop_items[last'.item].stock = 1
              /\ get_user_balance(user_economy, last'.user, FALSE).gold
                     >= shop_items[last'.item].price)
             => C22_LastPieceSold(last'.user, last'.item)
          /\ C22_SoldOut(last'.item)]_vars

\* C22 amended: a ware with stock 1 is sold to the first buyer whose purse
\* holds the price, whose purse less the price is not above the buyer's
\* cap and who does not hold the ware's role yet, and is left with stock
\* 0; every later attempt is refused as sold out and changes no balance,
\* inventory or stock; a stock of 0 stays 0
C22_StockOneBoughtOnceUnlessRefused ==
    /\ [][C22_IsCall =>
             /\ (/\ shop_items[last'.item].stock = 1
                 /\ get_user_balance(user_economy, last'.user, FALSE).gold
                        >= shop_items[last'.item].price
                 /\ get_user_balance(user_economy, last'.user, FALSE).gold
                        - shop_items[last'.item].price
                        <= get_gold_cap(user_economy, perm, last'.user,
                                        FALSE).val
                 /\ shop_items[last'.item].role_id
                        \notin member_roles[last'.user])
                => C22_LastPieceSold(last'.user, last'.item)
             /\ C22_SoldOut(last'.item)]_vars
    /\ [][\A i \in 1..Len(shop_items) :
             shop_items[i].stock = 0 => shop_items'[i].stock = 0]_vars

\* C22 witness: the single piece of a ware was sold, and a later attempt
\* of a member whose purse holds the price was refused as sold out
C22_Witness ==
    /\ IsBuy(last)
    /\ last.reason = "sold_out"
    /\ shop_items[last.item].stock = 0
    /\ Len(user_inventory) = 1
    /\ user_inventory[1].item_id = last.item
    /\ get_user_balance(user_economy, last.user, FALSE).gold
           >= shop_items[last.item].price

\* C23: every row of user_inventory has its purchase record in transactions
\* and every purchase record has its row of user_inventory, also after a
\* storage call of buy_item has failed
C23_PurchaseAllOrNothing ==
    \A u \in Users :
        Cardinality({i \in 1..Len(user_inventory) :
                        user_inventory[i].user_id = u})
        = Cardinality({i \in 1..Len(transactions) :
                          /\ transactions[i].user = u
                          /\ transactions[i].amount < 0
                          /\ \E j \in 1..Len(shop_items) :
                                transactions[i].description
                                = PurchaseDescription(shop_items[j].name)})

IsTransfer(c) == c.op = "transfer_gold"

\* the reason of the first validation that a transfer fails, from what the
\* call read
C24_FirstFailing(c) ==
    IF c.amount <= 0 THEN "positive"
    ELSE IF c.amount > c.sender_gold THEN "insufficient"
    ELSE IF c.user = c.receiver THEN "self"
    ELSE IF c.receiver_gold + c.amount > c.receiver_cap THEN "cap"
    ELSE "none"

\* a transfer is refused exactly when a validation fails, with its reason
C24_Reasons ==
    IsTransfer(last) =>
        IF last.success
        THEN C24_FirstFailing(last) = "none"
        ELSE last.reason = C24_FirstFailing(last)

\* a step that is the call of transfer_gold recorded in last'
C24_IsCall ==
    /\ IsTransfer(last')
    /\ TransferGold(last'.user, last'.receiver, last'.amount)

\* what the call read is what the tables held
C24_ReadsStored ==
    /\ last'.sender_gold = AccountView(user_economy, last'.user)[1]
    /\ last'.receiver_gold = AccountView(user_economy, last'.receiver)[1]
    /\ last'.receiver_cap
           = get_gold_cap(user_economy, perm, last'.receiver, FALSE).val

C24_RefusedStep ==
    C24_IsCall =>
        /\ C24_ReadsStored
        /\ ~last'.success =>
              /\ transactions' = transactions
              /\ \A u \in Users :
                    AccountView(user_economy', u)
                    = AccountView(user_economy, u)

\* C24: transfer_gold refuses a non-positive amount, an amount above the
\* sender's balance, a transfer to oneself and an amount that would take the
\* receiver above the receiver's cap, with the reason of the first of these
\* that fails, and a refused transfer changes no balance, lifetime counter
\* or transaction record of any account
C24_RefusedTransferChangesNothing ==
    /\ []C24_Reasons
    /\ [][C24_RefusedStep]_vars

\* C24 witness: after a transfer that went through, a transfer that the
\* sender could pay was refused because the receiver's purse would exceed
\* its cap
C24_Witness ==
    /\ IsTransfer(last)
    /\ ~last.success
    /\ last.reason = "cap"
    /\ last.amount <= last.sender_gold
    /\ Len(transactions) = 2
    /\ transactions[2].user = last.receiver

\* C25: a call of update_user_balance in which the balance read, the balance
\* write or the record append raises leaves the account's stored balance and
\* lifetime counters as they were
C25_FailedAdjustChangesNothing ==
    [][(/\ IsAdjust(last')
        /\ last'.fail \in {"read", "update", "insert"}
        /\ AdjustFailing(last'.user, last'.change, last'.fail))
          => AccountView(user_economy', last'.user)
             = AccountView(user_economy, last'.user)]_vars

IsBonus(c) == c.op = "claim_admin_monthly_bonus"

\* what a call of claim_admin_monthly_bonus by u does
C26_Step(u) ==
    IF last'.success
    THEN /\ perm[u]
         /\ HasRow(user_economy', u)
         /\ user_economy'[u].is_admin
         /\ user_economy'[u].gold
                = AccountView(user_economy, u)[1] + ADMIN_MONTHLY_BONUS
         /\ last'.amount = ADMIN_MONTHLY_BONUS
    ELSE UNCHANGED <<user_economy, transactions, admin_monthly_claims>>

\* the bonus records of one member are 30 days apart
C26_Spacing ==
    \A i, j \in 1..Len(admin_monthly_claims) :
        (i < j /\ admin_monthly_claims[i].user = admin_monthly_claims[j].user)
        => admin_monthly_claims[j].claimed_at
               - admin_monthly_claims[i].claimed_at >= ADMIN_MONTHLY_SECONDS

\* C26: a successful claim_admin_monthly_bonus credits ADMIN_MONTHLY_BONUS
\* to an account whose is_admin flag is set and whose holder has the
\* Administrator permission, the successful claims of one account are at
\* least 2,592,000 seconds apart, and a refused claim changes no table
C26_BonusGatedFixedMonthly ==
    /\ [][(IsBonus(last') /\ ClaimAdminMonthlyBonus(last'.user))
             => C26_Step(last'.user)]_vars
    /\ []C26_Spacing

\* the balance changes of the wagers of u that are in the ledger
WagerChanges(u) ==
    {i \in 1..Len(transactions) :
        /\ transactions[i].user = u
        /\ transactions[i].description \in {GambleDescription(TRUE),
                                            GambleDescription(FALSE)}}

\* the gambling records of u, all of which count against the weekly quota
WagerRecords(u) ==
    {i \in 1..Len(gambling_records) : gambling_records[i].user = u}

\* C27: each member has as many wager balance changes as gambling records,
\* and as many gambling records as wins and losses counted, also after a
\* storage call of gamble has failed
C27_WagerAllOrNothing ==
    \A u \in Users :
        /\ Cardinality(WagerChanges(u)) = Cardinality(WagerRecords(u))
        /\ HasRow(user_economy, u) =>
              user_economy[u].gamble_wins + user_economy[u].gamble_losses
              = Cardinality(WagerRecords(u))

\* the tasks whose INSERT of u's account was accepted and that have not
\* returned yet
Creators(u) ==
    {p \in Procs : /\ "inserted" \in DOMAIN procs[p]
                   /\ procs[p].user = u
                   /\ procs[p].inserted}

\* a step keeps every account and its columns, and a new account starts
\* with 100 gold and 100 gold earned, made by the one task whose INSERT was
\* accepted in this step
C28_Step ==
    /\ \A u \in DOMAIN user_economy :
          HasRow(user_economy', u) /\ user_economy'[u] = user_economy[u]
    /\ \A u \in DOMAIN user_economy' \ DOMAIN user_economy :
          /\ user_economy'[u].gold = 100
          /\ user_economy'[u].total_gold_earned = 100
    /\ \A u \in Users :
          Cardinality(Creators(u)' \ Creators(u))
          = IF HasRow(user_economy', u) /\ ~HasRow(user_economy, u)
            THEN 1 ELSE 0

\* C28: the first get_user_balance of a member inserts the account with
\* gold 100 and total_gold_earned 100, one INSERT is accepted per member
\* also when two first reads of the member run concurrently, and no step
\* removes an account
C28_AccountCreatedOnce ==
    /\ [][C28_Step]_vars
    /\ [](\A u \in Users : Cardinality(Creators(u)) <= 1)

\* C28 witness: two first reads of one member ran concurrently; the INSERT
\* of one was accepted, the INSERT of the other was refused
C28_Witness ==
    /\ procs["p1"].pc = "done"
    /\ procs["p2"].pc = "done"
    /\ procs["p1"].user = procs["p2"].user
    /\ ~procs["p1"].found
    /\ ~procs["p2"].found
    /\ procs["p1"].inserted
    /\ ~procs["p2"].inserted
    /\ user_economy[procs["p1"].user].gold = 100

\* every active tournament has one end_tournament_later task asleep for
\* its message
C29_TriggerPending ==
    \A i \in 1..Len(active_giveaways) :
        active_giveaways[i].status = "active"
        => Cardinality({tm \in timers :
               tm.message_id = active_giveaways[i].message_id}) = 1

\* a tournament is ended by a task of its message that wakes up, and not
\* before its end_time
C29_EndedByTrigger ==
    \A i \in 1..Len(active_giveaways) :
        (active_giveaways[i].status = "active"
         /\ active_giveaways'[i].status = "ended")
        => /\ \E tm \in timers \ timers' :
                  tm.message_id = active_giveaways[i].message_id
           /\ now' >= active_giveaways[i].end_time

C30_Movers == {p \in Procs : procs'[p] # procs[p] /\ procs'[p].pc # "idle"}

\* the step of a task on account u leaves every other account as it was,
\* with its balance, counters and cooldown stamps, keeps the records that
\* exist and appends at most one record, for u
C30_Frame ==
    \A p \in C30_Movers :
        LET u == procs'[p].user
        IN  /\ \A v \in Users \ {u} :
                   /\ HasRow(user_economy', v) = HasRow(user_economy, v)
                   /\ HasRow(user_economy, v)
                      => user_economy'[v] = user_economy[v]
            /\ HasRow(user_economy, u)
               => /\ user_economy'[u].daily_claimed
                     = user_economy[u].daily_claimed
                  /\ user_economy'[u].work_cooldown
                     = user_economy[u].work_cooldown
                  /\ user_economy'[u].admin_monthly_claimed
                     = user_economy[u].admin_monthly_claimed
            /\ \/ transactions' = transactions
               \/ /\ procs'[p].pc = "done"
                  /\ Len(transactions') = Len(transactions) + 1
                  /\ SubSeq(transactions', 1, Len(transactions))
                     = transactions
                  /\ transactions'[Len(transactions')].user = u
                  /\ transactions'[Len(transactions')].amount
                     = procs'[p].change
                  /\ transactions'[Len(transactions')].balance_after
                     = procs'[p].new_gold

\* a call that has returned while no other task was on its account wrote
\* what it would have written alone, whatever the other task did between
\* its steps
C30_Undisturbed ==
    \A p \in Procs :
        (/\ procs[p].pc = "done"
         /\ \A q \in Procs \ {p} : procs[q].user # procs[p].user)
        => /\ user_economy[procs[p].user].gold = procs[p].new_gold
           /\ procs[p].new_gold
              = NewGold(procs[p].current_gold, procs[p].change,
                        procs[p].gold_cap)
           /\ user_economy[procs[p].user].total_gold_earned
              = NewTotalEarned(procs[p].total_earned, procs[p].change)
           /\ user_economy[procs[p].user].total_gold_spent
              = NewTotalSpent(procs[p].total_spent, procs[p].change)

\* the deltas of the calls run in both orders: a debit that meets the
\* floor, a credit, a credit that meets the cap
CommuteDeltas == {0 - 150, 5, 150}

\* two calls on different accounts, run one after the other from the
\* tables as they are, give the same accounts in either order, and the
\* same two records
C30_Commute ==
    \A u \in Users, v \in Users, d \in CommuteDeltas, e \in CommuteDeltas :
        LET u1 == update_user_balance(user_economy, transactions, perm, now,
                                      u, d, "adjust", "none")
            uv == update_user_balance(u1.ue, u1.tx, perm, now, v, e,
                                      "adjust", "none")
            v1 == update_user_balance(user_economy, transactions, perm, now,
                                      v, e, "adjust", "none")
            vu == update_user_balance(v1.ue, v1.tx, perm, now, u, d,
                                      "adjust", "none")
            n == Len(transactions)
        IN  u # v
            => /\ uv.ue = vu.ue
               /\ Len(uv.tx) = n + 2
               /\ Len(vu.tx) = n + 2
               /\ uv.tx[n + 1] = vu.tx[n + 2]
               /\ uv.tx[n + 2] = vu.tx[n + 1]

\* C30: update_user_balance on one account changes that account's gold and
\* lifetime counters only and appends one record for it; the gold,
\* counters, cooldown stamps and records of every other account stay as
\* they are, so calls on different accounts commute, also when their steps
\* interleave
C30_AdjustTouchesOneAccount ==
    /\ [][C30_Frame]_vars
    /\ [](C30_Undisturbed /\ C30_Commute)

\* C30 witness: two calls on different accounts ran with their steps
\* interleaved and both wrote
C30_Witness ==
    /\ procs["p1"].pc = "done"
    /\ procs["p2"].pc = "done"
    /\ procs["p1"].user # procs["p2"].user
    /\ procs["p1"].change # 0
    /\ procs["p2"].change # 0
    /\ Len(transactions) = 2
    /\ transactions[1].user = procs["p2"].user
    /\ transactions[2].user = procs["p1"].user
    /\ user_economy[procs["p1"].user].gold # user_economy[procs["p2"].user].gold
\* buy_item(u, item_id) passes every check of the code in this state
C31_Accepted(u, item_id) ==
    /\ item_id \in 1..Len(shop_items)
    /\ LET b == get_user_balance(user_economy, u, FALSE)
           c == get_gold_cap(b.ue, perm, u, FALSE)
       IN  BuyRefusal(TRUE, shop_items[item_id].stock, b.gold,
                      shop_items[item_id].price, c.val,
                      shop_items[item_id].role_id \in member_roles[u])
           = "none"

\* what an accepted purchase leaves behind when member.add_roles raises
C31_Step(u, item_id) ==
    LET item == shop_items[item_id]
        n == Len(transactions)
    IN  /\ last'.success
        /\ member_roles' = member_roles
        /\ user_economy'[u].gold
           = get_user_balance(user_economy, u, FALSE).gold - item.price
        /\ Len(transactions') = n + 1
        /\ transactions'[n + 1].user = u
        /\ transactions'[n + 1].amount = 0 - item.price
        /\ user_inventory'
           = Append(user_inventory, InventoryRow(u, item_id, now))
        /\ shop_items'[item_id].stock
           = IF item.stock > 0 THEN item.stock - 1 ELSE item.stock

\* C31: when member.add_roles raises in a purchase that passed every
\* check, buy_item still returns success, and the deduction, the
\* user_inventory row and the stock decrement stay
C31_GrantFailureKeepsPurchase ==
    [][(/\ IsBuy(last')
        /\ C31_Accepted(last'.user, last'.item)
        /\ BuyItem(last'.user, last'.item, FALSE, "none"))
          => C31_Step(last'.user, last'.item)]_vars

\* C31 witness: the last piece of a ware was bought and paid, and the
\* buyer does not hold its role
C31_Witness ==
    /\ IsBuy(last)
    /\ last.success
    /\ shop_items[last.item].stock = 0
    /\ shop_items[last.item].role_id \notin member_roles[last.user]
    /\ user_inventory # << >>
    /\ user_economy[last.user].gold = 70

\* the debit of a payment takes exactly amount from the sender, and its
\* credit gives exactly amount to the receiver
C32_Step ==
    \A p \in Procs :
        /\ (procs[p].pc = "debit" /\ procs'[p].pc = "credit")
           => user_economy'[procs[p].user].gold
              = user_economy[procs[p].user].gold - procs[p].amount
        /\ (procs[p].pc = "credit" /\ procs'[p].pc = "done")
           => user_economy'[procs[p].receiver].gold
              = user_economy[procs[p].receiver].gold + procs[p].amount

\* C32: a transfer_gold that returns success has lowered the sender's gold
\* by amount and raised the receiver's by amount, whatever other calls ran
\* between its steps and also when the store fails one of the two writes
C32_TransferConservesGold == [][C32_Step]_vars

\* the gold that the step adds to the purse of u, as a reader of the purse
\* sees it
C33_Credited(u) ==
    get_user_balance(user_economy', u, FALSE).gold
    - get_user_balance(user_economy, u, FALSE).gold

RECURSIVE C33_TotalCredited(_)
C33_TotalCredited(S) ==
    IF S = {} THEN 0
    ELSE LET u == CHOOSE x \in S : TRUE
         IN  C33_Credited(u) + C33_TotalCredited(S \ {u})

\* the gold that the tournament_cmd call of message_id took from its host
C33_Removed(message_id) ==
    LET p == CHOOSE q \in Procs :
                 /\ "removed" \in DOMAIN procs[q]
                 /\ procs[q].message_id = message_id
    IN  procs[p].removed

\* C33: the gold that the end of a tournament credits to its winners is
\* never more than the gold that its creation took from the host, also
\* when another call spends the host's gold between the test of the purse
\* and the deduction
C33_PrizesCoveredByEscrow ==
    [][\A i \in 1..Len(active_giveaways) :
          (/\ active_giveaways[i].status = "active"
           /\ active_giveaways'[i].status = "ended")
          => C33_TotalCredited(Users)
             <= C33_Removed(active_giveaways[i].message_id)]_vars

\* the gambling records of u in the calendar week of the clock
C34_TriesThisWeek(u) ==
    Cardinality({i \in 1..Len(gambling_records) :
                    /\ gambling_records[i].user = u
                    /\ gambling_records[i].timestamp >= get_week_start(now)})

\* C34: no account has more than 30 gambling records in one calendar week,
\* also when gamble calls of the account overlap between the count of
\* can_gamble_weekly and the INSERT INTO gambling_records
C34_QuotaUnderConcurrency ==
    \A u \in Users : C34_TriesThisWeek(u) <= WEEKLY_GAMBLING_TRIES

\* the purchases of a ware that succeeded: its rows in user_inventory
C35_Sold(ui, item_id) ==
    Cardinality({i \in 1..Len(ui) : ui[i].item_id = item_id})

\* C35: a ware with a limited stock is sold only while a piece is left, and
\* its stored stock never goes below 0, so it never takes the value -1 of
\* an unlimited ware, also when purchases of it overlap
C35_StockNeverNegative ==
    [][\A i \in 1..Len(shop_items) :
          shop_items[i].stock >= 0
          => /\ shop_items'[i].stock >= 0
             /\ C35_Sold(user_inventory', i) > C35_Sold(user_inventory, i)
                => shop_items[i].stock > 0]_vars

\* the gambling records of u, and those of them tagged win
C36_Records(u) ==
    {i \in 1..Len(gambling_records) : gambling_records[i].user = u}

C36_WinRecords(u) ==
    {i \in C36_Records(u) : gambling_records[i].outcome = "win"}

\* C36: gamble_wins + gamble_losses of an account is the number of its
\* gambling records, and gamble_wins is the number of those tagged win; an
\* account that does not exist has no record
C36_CountersMatchRecords ==
    \A u \in Users :
        IF HasRow(user_economy, u)
        THEN /\ user_economy[u].gamble_wins + user_economy[u].gamble_losses
                = Cardinality(C36_Records(u))
             /\ user_economy[u].gamble_wins = Cardinality(C36_WinRecords(u))
        ELSE C36_Records(u) = {}

\* C36 witness: an account has won one wager and lost one, and the balance
\* write of one of the two has met a storage failure
C36_Witness ==
    \E u \in Users :
        /\ HasRow(user_economy, u)
        /\ user_economy[u].gamble_wins = 1
        /\ user_economy[u].gamble_losses = 1
        /\ Cardinality(C36_Records(u)) = 2
        /\ Len(transactions) = 1

\* the gold of u as a reader of the purse sees it: an account that has no
\* row yet starts with 100
C37_Gold(ue, u) == get_user_balance(ue, u, FALSE).gold

\* the records of u that the step appends
C37_NewRecords(u) ==
    {i \in (Len(transactions) + 1)..Len(transactions') :
        transactions'[i].user = u}

RECURSIVE C37_Sum(_)
C37_Sum(S) ==
    IF S = {} THEN 0
    ELSE LET i == CHOOSE x \in S : TRUE
         IN  transactions'[i].amount + C37_Sum(S \ {i})

\* a record of update_user_balance whose new_gold was clamped to 0 or to
\* the cap; a step appends at most one record per account
C37_Clamped(u) ==
    \E i \in C37_NewRecords(u) :
        /\ transactions'[i].type = "balance_change"
        /\ transactions'[i].balance_after
           # C37_Gold(user_economy, u) + transactions'[i].amount

\* a step without a clamped adjust moves the gold of every account by the
\* sum of the amounts of the records it appends for the account, and the
\* latest of them carries the new gold
C37_Step ==
    \A u \in Users :
        ~C37_Clamped(u)
        => /\ C37_Gold(user_economy', u)
              = C37_Gold(user_economy, u) + C37_Sum(C37_NewRecords(u))
           /\ \A i \in C37_NewRecords(u) :
                 (\A j \in C37_NewRecords(u) : j <= i)
                 => transactions'[i].balance_after
                    = C37_Gold(user_economy', u)

\* C37: one call at a time and with no clamped adjust, the gold of an
\* account is 100 plus the sum of the amounts of its transaction records,
\* and balance_after of its latest record is its gold: the records are
\* only appended, the log starts empty, and every step keeps the equation
C37_BalanceIsSumOfRecords ==
    /\ [][C37_Step]_vars
    /\ [][SubSeq(transactions', 1, Len(transactions)) = transactions]_vars

----------------------------------------------------------------------------
(* C38 *)

C38_IsGateCall(c, op) ==
    "gate_failed" \in DOMAIN c /\ c.gate_failed /\ c.op = op

\* what each check answers when its read fails
C38_ChecksAnswerOpen ==
    \A u \in Users :
        /\ can_claim_daily(user_economy, now, u, TRUE)
        /\ can_claim_admin_monthly(user_economy, now, u, TRUE)
        /\ get_labour_cooldown_status(user_economy, now, u, TRUE)
               = [can_work |-> TRUE, remaining |-> 0]
        /\ can_gamble_weekly(gambling_records, now, u, TRUE)
               = [can_gamble |-> TRUE, remaining |-> WEEKLY_GAMBLING_TRIES,
                  current_tries |-> 0]

\* the call appended one record of a credit of last'.amount to its caller
C38_Credited(description) ==
    /\ last'.success
    /\ Len(transactions') = Len(transactions) + 1
    /\ transactions'[Len(transactions')].user = last'.user
    /\ transactions'[Len(transactions')].amount = last'.amount
    /\ transactions'[Len(transactions')].description = description
    /\ last'.amount > 0

C38_Step ==
    /\ (C38_IsGateCall(last', "claim_daily")
        /\ ClaimDailyGate(last'.user, TRUE))
       => C38_Credited("Royal daily stipend")
    /\ (C38_IsGateCall(last', "work") /\ WorkGate(last'.user, TRUE))
       => C38_Credited("Honest labour")
    /\ (C38_IsGateCall(last', "claim_admin_monthly_bonus")
        /\ ClaimAdminMonthlyBonusGate(last'.user, TRUE)
        /\ is_user_admin(user_economy, perm, last'.user, FALSE).val
        /\ perm[last'.user])
       => C38_Credited("Royal administrator monthly bounty")
    /\ (C38_IsGateCall(last', "gamble") /\ GambleGate(last'.user, TRUE)
        /\ GambleRefusal(TRUE, last'.amount,
               get_user_balance(user_economy, last'.user, FALSE).gold,
               get_gold_cap(user_economy, perm, last'.user, FALSE).val,
               TRUE) = "none")
       => /\ last'.success
          /\ Len(gambling_records') = Len(gambling_records) + 1
          /\ gambling_records'[Len(gambling_records')].user = last'.user

\* C38: each of the four checks answers "allowed" when its read of the
\* storage fails (the quota check with all 30 tries remaining), and a call
\* whose check failed in this way goes on to its credit or its wager
\* whatever the stored cooldown or the week's records say
C38_GatesFailOpen == []C38_ChecksAnswerOpen /\ [][C38_Step]_vars

\* labour paid twice in the same second: the second call's cooldown read
\* failed while the cooldown of the first was running
C38_Witness ==
    /\ C38_IsGateCall(last, "work")
    /\ last.success
    /\ Len(transactions) = 2
    /\ \A i \in 1..2 : /\ transactions[i].user = last.user
                       /\ transactions[i].description = "Honest labour"
                       /\ transactions[i].timestamp = now
    /\ ~get_labour_cooldown_status(user_economy, now, last.user, FALSE).can_work

\* a wager past the allowance admitted by a failed quota read
C38_QuotaPassed ==
    /\ C38_IsGateCall(last, "gamble")
    /\ last.success
    /\ Len(gambling_records) = WEEKLY_GAMBLING_TRIES + 1

----------------------------------------------------------------------------
(* C39 *)

C39_Flagged(ue, u) == HasRow(ue, u) /\ ue[u].is_admin

\* no step clears a flag or removes a flagged row
C39_FlagStep ==
    \A u \in Users : C39_Flagged(user_economy, u)
                     => C39_Flagged(user_economy', u)

\* a flagged account gets the administrators' ceiling whatever the live
\* permission is
C39_FlaggedCeiling ==
    \A u \in Users :
        C39_Flagged(user_economy, u)
        => get_gold_cap(user_economy, perm, u, FALSE).val = MAX_GOLD_ADMIN

\* an adjust that applies the administrators' ceiling leaves the flag set
C39_CeilingStep ==
    (/\ last'.op = "update_user_balance"
     /\ Adjust(last'.user, last'.change)
     /\ last'.gold_cap = MAX_GOLD_ADMIN)
    => C39_Flagged(user_economy', last'.user)

\* of two consecutive adjusts of one account the later applies a ceiling
\* at least as high as the earlier
C39_ConsecutiveCeilings ==
    (/\ prev.op = "update_user_balance"
     /\ last.op = "update_user_balance"
     /\ prev.user = last.user)
    => prev.gold_cap <= last.gold_cap

\* C39: is_admin, once true in an account's row, stays true, and the
\* ceiling applied to an account by update_user_balance never decreases:
\* the administrators' ceiling is applied only with the flag set or being
\* set, and a set flag yields that ceiling from then on
C39_FlagNeverCleared ==
    /\ [][C39_FlagStep /\ C39_CeilingStep]_vars
    /\ [](C39_FlaggedCeiling /\ C39_ConsecutiveCeilings)

\* an account adjusted as administrator, then adjusted again after the
\* permission was withdrawn, under the same ceiling
C39_Witness ==
    /\ prev.op = "update_user_balance"
    /\ last.op = "update_user_balance"
    /\ prev.user = last.user
    /\ prev.gold_cap = MAX_GOLD_ADMIN
    /\ last.gold_cap = MAX_GOLD_ADMIN
    /\ ~perm[last.user]
    /\ C39_Flagged(user_economy, last.user)

====
